---- MODULE Spec2Model ----
(***************************************************************************)
(* XVault contract: the deterministic vault state machine of               *)
(* src/contract/state.js, the operation dispatcher of                      *)
(* src/contract/index.js and the signature / URI-token helpers of          *)
(* src/contract/xrplUtils.js.                                              *)
(*                                                                         *)
(* Every handler is an operator that reads the state variables and         *)
(* returns the outcome of one request: the response code, the response     *)
(* data and the vaults map and rate limiter the handler leaves behind      *)
(* (a handler that throws keeps every mutation it made before the throw).  *)
(* The actions apply these outcomes.                                       *)
(***************************************************************************)
EXTENDS Naturals, Sequences, FiniteSets, TLC

VARIABLES
    vaults,     \* VaultState.vaults: vault id -> vault record
    stateFile,  \* the vaults map held by the state file (as loadStateFromFs reads it)
    limiter,    \* index.js `limiter`: {roundKey, perAddress}
    cfg,        \* process-wide startup flags (index.js lines 23-25)
    served,     \* history: requests let through the limiter in the current round
    revocations,  \* history: the vaults revoked and not created again since
    removals,   \* history: the members removed from a vault and not accepted again since
    commits,    \* history: operations of TrackedActor committed under TrackedRound
    streak,     \* history: operations of TrackedActor committed since the round key last changed
    queue,      \* bootstrapHotPocketRuntime `queue`: the items collectUserRequests built
    position,   \* the item the request iterator of the bootstrap looks at next
    cursor,     \* bootstrapHotPocketRuntime `cursor`: the respond calls made so far
    outputs,    \* the responses written, in order: [outFd, payload, item]
    audit,      \* the audit records written, in order: [event, success, item]
    halted,     \* runContract ended with a rejection
    calls,      \* wsTransport.js: the submit calls made, in order, each with its promise
    ws,         \* wsTransport.js `ws`: the socket the transport holds
    wire        \* history: the operations sent with ws.send, in order

\* The variables of the runtime bootstrap.
runtime == <<queue, position, cursor, outputs, audit, halted>>

\* The variables of the WebSocket transport of the SDK.
transport == <<calls, ws, wire>>

\* The variables of the contract process, which the SDK does not touch.
contract == <<vaults, stateFile, limiter, cfg, served, revocations, removals, commits, streak,
              queue, position, cursor, outputs, audit, halted>>

vars == <<vaults, stateFile, limiter, cfg, served, revocations, removals, commits, streak,
          queue, position, cursor, outputs, audit, halted, calls, ws, wire>>

(***************************************************************************)
(* Bounds and input universes                                             *)
(***************************************************************************)
MaxEntries == 1
MaxCommits == 6

OPS_PER_ROUND_LIMIT == 5

Addresses == {"rA", "rB"}
Owners == {"rA"}
BadAddress == "bad"
Keys == {"kA", "kB"}
NoKey == ""
Salts == {"aabbccddeeff0011"}
BadSalt == "zz"
OtherSalt == "aabbccddeeff0022"
RoundKeys == {"1", "2"}
NoRound == "null"
Cids == {"bafy1"}
BadCid == "not-a-cid"
ShortVaultId == "short"
NewUris == {"ipfs://policy-2"}
LedgerTokenIds == {"L1"}

DEFAULT_URI_ISSUER == "rIssuer"
PlaceholderUri == "ipfs://placeholder-for-now"

\* xrpl deriveAddress: the classic address of a public key (injective).
deriveAddress(key) ==
    CASE key = "kA" -> "rA"
      [] key = "kB" -> "rB"
      [] OTHER -> "rNone"

\* xrplUtils.validateClassicAddress: TRUE iff the address is accepted.
validClassicAddress(address) == address \in Addresses

\* xrplUtils.validateHexSalt: TRUE iff the salt is accepted.
validHexSalt(salt) == salt \in Salts \cup {OtherSalt}

\* The CID acceptance grammar: the three anchored patterns of cidUtils
\* (CIDV0_REGEX, CIDV1_BASE32_REGEX, CIDV1_BASE36_REGEX), length 10 to 120.
MatchesCidGrammar(cid) == cid \in Cids

\* A CID of the grammar between two blanks, and String.prototype.trim on the
\* strings in use.
PaddedCid == " bafy1 "
trim(str) == IF str = PaddedCid THEN "bafy1" ELSE str

\* cidUtils.isLikelyIpfsCid: the patterns are tested on cid.trim().
isLikelyIpfsCid(cid) == MatchesCidGrammar(trim(cid))

\* index.js assertString(vaultId, "vaultId", 8, 128)
validVaultIdString(vaultId) == vaultId # ShortVaultId

\* state.js buildVaultId: sha256(owner + ":" + salt), modelled as the preimage itself.
buildVaultId(owner, salt) == "sha256(" \o owner \o ":" \o salt \o ")"

VaultIds == {buildVaultId(o, s) : o \in Owners, s \in Salts}

(***************************************************************************)
(* Signatures (xrplUtils.js)                                               *)
(*                                                                         *)
(* A signature is the pair of the key that made it and the digest it was  *)
(* made over; hashForSigning is modelled as the preimage record itself    *)
(* (a record does not depend on the order of its keys).                   *)
(***************************************************************************)
NoSignature == [by |-> "", over |-> [missing |-> TRUE]]
Tampered == [tampered |-> TRUE]

\* xrpl verifyKeypairSignature(hash, signature, publicKey)
verifyKeypairSignature(signingHash, signature, signerPublicKey) ==
    signature.by = signerPublicKey /\ signature.over = signingHash

\* xrplUtils.verifySignedPayload without the comparison of the derived address
\* with the expected one.
verifySignedPayloadMissingAddressCheck(signingHash, signature, signerPublicKey, expectedAddress) ==
    IF signature = NoSignature \/ signerPublicKey = NoKey THEN "INVALID_SIGNATURE"
    ELSE IF signerPublicKey \notin Keys THEN "INVALID_SIGNATURE"
    ELSE IF ~verifyKeypairSignature(signingHash, signature, signerPublicKey) THEN "INVALID_SIGNATURE"
    ELSE "OK"

\* xrplUtils.verifySignedPayload: "OK" or the code it fails with.
verifySignedPayload(signingHash, signature, signerPublicKey, expectedAddress) ==
    IF signature = NoSignature \/ signerPublicKey = NoKey THEN "INVALID_SIGNATURE"
    ELSE IF signerPublicKey \notin Keys THEN "INVALID_SIGNATURE"
    ELSE IF deriveAddress(signerPublicKey) # expectedAddress THEN "INVALID_SIGNATURE"
    ELSE IF ~verifyKeypairSignature(signingHash, signature, signerPublicKey) THEN "INVALID_SIGNATURE"
    ELSE "OK"

\* The credentials a request can carry for a preimage h: signed by any key with
\* that key declared, signed by one key while another is declared, signed over
\* another preimage (Tampered), or missing.
Credentials(h) ==
    {[signerPublicKey |-> k, signature |-> [by |-> k, over |-> h]] : k \in Keys}
    \cup {[signerPublicKey |-> k, signature |-> [by |-> j, over |-> h]] : k \in Keys, j \in Keys}
    \cup {[signerPublicKey |-> k, signature |-> [by |-> k, over |-> Tampered]] : k \in Keys}
    \cup {[signerPublicKey |-> NoKey, signature |-> NoSignature]}

(***************************************************************************)
(* Vault State Store (state.js).  Each mutator takes the vaults map and    *)
(* returns [code, vaults]: code "OK" and the map after the mutation, or    *)
(* the code it fails with and the map unchanged.                           *)
(***************************************************************************)
Undefined == "undefined"
Null == "null"

\* The passwordBackup of a metadata object that has none.
NoBackup == [version |-> 0, vaultId |-> "", salt |-> "", nonce |-> "", authTag |-> "", ciphertext |-> ""]

Has(vs, vaultId) == vaultId \in DOMAIN vs

Contains(seq, x) == \E i \in 1..Len(seq) : seq[i] = x

\* Array.prototype.indexOf / findIndex, 1-based; 0 when absent.
IndexOf(seq, x) ==
    IF Contains(seq, x) THEN CHOOSE i \in 1..Len(seq) : seq[i] = x /\ \A j \in 1..(i - 1) : seq[j] # x
    ELSE 0

\* Array.prototype.splice(idx, 1)
RemoveAt(seq, idx) == [i \in 1..(Len(seq) - 1) |-> IF i < idx THEN seq[i] ELSE seq[i + 1]]

\* [...new Set(seq)]: first occurrences, in order.
RECURSIVE Dedup(_)
Dedup(seq) ==
    IF seq = <<>> THEN <<>>
    ELSE LET front == Dedup(SubSeq(seq, 1, Len(seq) - 1))
             last == seq[Len(seq)]
         IN IF Contains(front, last) THEN front ELSE Append(front, last)

InviteAddresses(pendingInvites) == [i \in 1..Len(pendingInvites) |-> pendingInvites[i].address]

\* VaultState.createVault without the test that the id is absent.
createVaultOverwrites(vs, owner, salt, metadata, createdAt, manifestTokenId, type, authorized, pendingInvites) ==
    LET vaultId == buildVaultId(owner, salt) IN
    [code |-> "OK",
     vaults |-> [v \in DOMAIN vs \cup {vaultId} |->
         IF v = vaultId
         THEN [id |-> vaultId, type |-> type, owner |-> owner, createdAt |-> createdAt,
               salt |-> salt, metadata |-> metadata, manifestTokenId |-> manifestTokenId,
               authorized |-> Dedup(<<owner>> \o authorized),
               pendingInvites |-> pendingInvites, entries |-> <<>>]
         ELSE vs[v]]]

\* VaultState.createVault that stores the vault under a key other than its id.
createVaultUnderSalt(vs, owner, salt, metadata, createdAt, manifestTokenId, type, authorized, pendingInvites) ==
    LET vaultId == buildVaultId(owner, salt) IN
    IF Has(vs, salt) THEN [code |-> "VAULT_ALREADY_EXISTS", vaults |-> vs]
    ELSE [code |-> "OK",
          vaults |-> [v \in DOMAIN vs \cup {salt} |->
              IF v = salt
              THEN [id |-> vaultId, type |-> type, owner |-> owner, createdAt |-> createdAt,
                    salt |-> salt, metadata |-> metadata, manifestTokenId |-> manifestTokenId,
                    authorized |-> Dedup(<<owner>> \o authorized),
                    pendingInvites |-> pendingInvites, entries |-> <<>>]
              ELSE vs[v]]]

\* VaultState.createVault with the deduplication left out.
createVaultNoDedup(vs, owner, salt, metadata, createdAt, manifestTokenId, type, authorized, pendingInvites) ==
    LET vaultId == buildVaultId(owner, salt) IN
    IF Has(vs, vaultId) THEN [code |-> "VAULT_ALREADY_EXISTS", vaults |-> vs]
    ELSE [code |-> "OK",
          vaults |-> [v \in DOMAIN vs \cup {vaultId} |->
              IF v = vaultId
              THEN [id |-> vaultId, type |-> type, owner |-> owner, createdAt |-> createdAt,
                    salt |-> salt, metadata |-> metadata, manifestTokenId |-> manifestTokenId,
                    authorized |-> <<owner>> \o authorized,
                    pendingInvites |-> pendingInvites, entries |-> <<>>]
              ELSE vs[v]]]

\* VaultState.createVault
createVault(vs, owner, salt, metadata, createdAt, manifestTokenId, type, authorized, pendingInvites) ==
    LET vaultId == buildVaultId(owner, salt) IN
    IF Has(vs, vaultId) THEN [code |-> "VAULT_ALREADY_EXISTS", vaults |-> vs]
    ELSE [code |-> "OK",
          vaults |-> [v \in DOMAIN vs \cup {vaultId} |->
              IF v = vaultId
              THEN [id |-> vaultId, type |-> type, owner |-> owner, createdAt |-> createdAt,
                    salt |-> salt, metadata |-> metadata, manifestTokenId |-> manifestTokenId,
                    authorized |-> Dedup(<<owner>> \o authorized),
                    pendingInvites |-> pendingInvites, entries |-> <<>>]
              ELSE vs[v]]]

\* VaultState.assertReadAccess without the team membership test.
assertReadAccessTeamOpen(vault, actor) ==
    IF vault.type = "team" THEN "OK"
    ELSE IF vault.owner # actor THEN "UNAUTHORIZED" ELSE "OK"

\* VaultState.assertReadAccess: "OK" or "UNAUTHORIZED".
assertReadAccess(vault, actor) ==
    IF vault.type = "team"
    THEN IF ~Contains(vault.authorized, actor) THEN "UNAUTHORIZED" ELSE "OK"
    ELSE IF vault.owner # actor THEN "UNAUTHORIZED" ELSE "OK"

\* VaultState.assertWriteAccess
assertWriteAccess(vault, actor) ==
    IF vault.type = "team"
    THEN IF ~Contains(vault.authorized, actor) THEN "UNAUTHORIZED" ELSE "OK"
    ELSE IF vault.owner # actor THEN "UNAUTHORIZED" ELSE "OK"

\* The entry record VaultState.addEntry builds.
NewEntry(cid, entryMetadata, wrappedKeys, createdAt, tokenId) ==
    [tokenId |-> tokenId, cid |-> cid,
     metadata |-> [service |-> entryMetadata.service,
                   username |-> IF entryMetadata.username = Undefined THEN Null ELSE entryMetadata.username,
                   notes |-> IF entryMetadata.notes = Undefined THEN Null ELSE entryMetadata.notes],
     wrappedKeys |-> wrappedKeys, createdAt |-> createdAt]

\* VaultState.addEntry
addEntry(vs, vaultId, actor, cid, entryMetadata, wrappedKeys, createdAt, tokenId) ==
    IF ~Has(vs, vaultId) THEN [code |-> "VAULT_NOT_FOUND", vaults |-> vs]
    ELSE IF assertWriteAccess(vs[vaultId], actor) # "OK" THEN [code |-> "UNAUTHORIZED", vaults |-> vs]
    ELSE [code |-> "OK",
          vaults |-> [vs EXCEPT ![vaultId].entries =
                        Append(@, NewEntry(cid, entryMetadata, wrappedKeys, createdAt, tokenId))]]

NoEntry == [tokenId |-> Null, cid |-> Null,
            metadata |-> [service |-> Null, username |-> Null, notes |-> Null],
            wrappedKeys |-> <<>>, createdAt |-> Null]

\* VaultState.getEntry that looks the token id up first when it is given.
getEntryTokenFirst(vs, vaultId, actor, hasIndex, entryIndex, hasTokenId, tokenId) ==
    IF ~Has(vs, vaultId) THEN [code |-> "VAULT_NOT_FOUND", entry |-> NoEntry]
    ELSE LET vault == vs[vaultId]
             n == Len(vault.entries)
         IN IF assertReadAccess(vault, actor) # "OK" THEN [code |-> "UNAUTHORIZED", entry |-> NoEntry]
            ELSE IF hasTokenId
                 THEN IF \E i \in 1..n : vault.entries[i].tokenId = tokenId
                      THEN [code |-> "OK",
                            entry |-> vault.entries[CHOOSE i \in 1..n :
                                        /\ vault.entries[i].tokenId = tokenId
                                        /\ \A j \in 1..(i - 1) : vault.entries[j].tokenId # tokenId]]
                      ELSE [code |-> "ENTRY_NOT_FOUND", entry |-> NoEntry]
                 ELSE IF hasIndex /\ entryIndex + 1 \in 1..n
                      THEN [code |-> "OK", entry |-> vault.entries[entryIndex + 1]]
                      ELSE [code |-> "ENTRY_NOT_FOUND", entry |-> NoEntry]

\* VaultState.getEntry: [code, entry].  hasIndex: typeof entryIndex === "number"
\* (entryIndex is 0-based); hasTokenId: tokenId is a non-empty string.
getEntry(vs, vaultId, actor, hasIndex, entryIndex, hasTokenId, tokenId) ==
    IF ~Has(vs, vaultId) THEN [code |-> "VAULT_NOT_FOUND", entry |-> NoEntry]
    ELSE LET vault == vs[vaultId]
             n == Len(vault.entries)
         IN IF assertReadAccess(vault, actor) # "OK" THEN [code |-> "UNAUTHORIZED", entry |-> NoEntry]
            ELSE IF hasIndex
                 THEN IF entryIndex + 1 \in 1..n
                      THEN [code |-> "OK", entry |-> vault.entries[entryIndex + 1]]
                      ELSE [code |-> "ENTRY_NOT_FOUND", entry |-> NoEntry]
                 ELSE IF hasTokenId /\ \E i \in 1..n : vault.entries[i].tokenId = tokenId
                      THEN [code |-> "OK",
                            entry |-> vault.entries[CHOOSE i \in 1..n :
                                        /\ vault.entries[i].tokenId = tokenId
                                        /\ \A j \in 1..(i - 1) : vault.entries[j].tokenId # tokenId]]
                      ELSE [code |-> "ENTRY_NOT_FOUND", entry |-> NoEntry]

\* VaultState.addPendingInvite
addPendingInvite(vs, vaultId, invitedBy, address, invitedAt) ==
    IF ~Has(vs, vaultId) THEN [code |-> "VAULT_NOT_FOUND", vaults |-> vs]
    ELSE LET vault == vs[vaultId] IN
         IF vault.type # "team" THEN [code |-> "INVALID_VAULT_TYPE", vaults |-> vs]
         ELSE IF vault.owner # invitedBy THEN [code |-> "UNAUTHORIZED", vaults |-> vs]
         ELSE IF Contains(vault.authorized, address) THEN [code |-> "INVITE_ALREADY_ACCEPTED", vaults |-> vs]
         ELSE IF Contains(InviteAddresses(vault.pendingInvites), address)
              THEN [code |-> "INVITE_ALREADY_EXISTS", vaults |-> vs]
         ELSE [code |-> "OK",
               vaults |-> [vs EXCEPT ![vaultId].pendingInvites =
                   Append(@, [address |-> address, invitedBy |-> invitedBy, invitedAt |-> invitedAt])]]

\* VaultState.acceptPendingInvite that leaves the invite pending.
acceptPendingInviteKeepInvite(vs, vaultId, address) ==
    IF ~Has(vs, vaultId) THEN [code |-> "VAULT_NOT_FOUND", vaults |-> vs]
    ELSE LET vault == vs[vaultId]
             inviteIndex == IndexOf(InviteAddresses(vault.pendingInvites), address)
         IN IF vault.type # "team" THEN [code |-> "INVALID_VAULT_TYPE", vaults |-> vs]
            ELSE IF inviteIndex = 0 THEN [code |-> "INVITE_NOT_FOUND", vaults |-> vs]
            ELSE [code |-> "OK",
                  vaults |-> [vs EXCEPT ![vaultId].authorized = Append(@, address)]]

\* VaultState.acceptPendingInvite
acceptPendingInvite(vs, vaultId, address) ==
    IF ~Has(vs, vaultId) THEN [code |-> "VAULT_NOT_FOUND", vaults |-> vs]
    ELSE LET vault == vs[vaultId]
             inviteIndex == IndexOf(InviteAddresses(vault.pendingInvites), address)
         IN IF vault.type # "team" THEN [code |-> "INVALID_VAULT_TYPE", vaults |-> vs]
            ELSE IF inviteIndex = 0 THEN [code |-> "INVITE_NOT_FOUND", vaults |-> vs]
            ELSE [code |-> "OK",
                  vaults |-> [vs EXCEPT
                      ![vaultId].pendingInvites = RemoveAt(@, inviteIndex),
                      ![vaultId].authorized = IF Contains(@, address) THEN @ ELSE Append(@, address)]]

\* VaultState.revokePendingInvite that leaves the invite pending.
revokePendingInviteKeepsInvite(vs, vaultId, owner, pendingAddress) ==
    IF ~Has(vs, vaultId) THEN [code |-> "VAULT_NOT_FOUND", vaults |-> vs]
    ELSE LET vault == vs[vaultId]
             inviteIndex == IndexOf(InviteAddresses(vault.pendingInvites), pendingAddress)
         IN IF vault.type # "team" THEN [code |-> "INVALID_VAULT_TYPE", vaults |-> vs]
            ELSE IF vault.owner # owner THEN [code |-> "UNAUTHORIZED", vaults |-> vs]
            ELSE IF inviteIndex = 0 THEN [code |-> "INVITE_NOT_FOUND", vaults |-> vs]
            ELSE [code |-> "OK", vaults |-> vs]

\* VaultState.revokePendingInvite
revokePendingInvite(vs, vaultId, owner, pendingAddress) ==
    IF ~Has(vs, vaultId) THEN [code |-> "VAULT_NOT_FOUND", vaults |-> vs]
    ELSE LET vault == vs[vaultId]
             inviteIndex == IndexOf(InviteAddresses(vault.pendingInvites), pendingAddress)
         IN IF vault.type # "team" THEN [code |-> "INVALID_VAULT_TYPE", vaults |-> vs]
            ELSE IF vault.owner # owner THEN [code |-> "UNAUTHORIZED", vaults |-> vs]
            ELSE IF inviteIndex = 0 THEN [code |-> "INVITE_NOT_FOUND", vaults |-> vs]
            ELSE [code |-> "OK",
                  vaults |-> [vs EXCEPT ![vaultId].pendingInvites = RemoveAt(@, inviteIndex)]]

\* VaultState.removeAuthorizedMember that leaves the member in the list.
removeAuthorizedMemberKeepsMember(vs, vaultId, owner, memberToRemove) ==
    IF ~Has(vs, vaultId) THEN [code |-> "VAULT_NOT_FOUND", vaults |-> vs]
    ELSE LET vault == vs[vaultId]
             idx == IndexOf(vault.authorized, memberToRemove)
         IN IF vault.type # "team" THEN [code |-> "INVALID_VAULT_TYPE", vaults |-> vs]
            ELSE IF vault.owner # owner THEN [code |-> "UNAUTHORIZED", vaults |-> vs]
            ELSE IF memberToRemove = owner THEN [code |-> "INVALID_OPERATION", vaults |-> vs]
            ELSE IF idx = 0 THEN [code |-> "MEMBER_NOT_FOUND", vaults |-> vs]
            ELSE [code |-> "OK", vaults |-> vs]

\* VaultState.removeAuthorizedMember without the owner self-removal test.
removeAuthorizedMemberNoOwnerCheck(vs, vaultId, owner, memberToRemove) ==
    IF ~Has(vs, vaultId) THEN [code |-> "VAULT_NOT_FOUND", vaults |-> vs]
    ELSE LET vault == vs[vaultId]
             idx == IndexOf(vault.authorized, memberToRemove)
         IN IF vault.type # "team" THEN [code |-> "INVALID_VAULT_TYPE", vaults |-> vs]
            ELSE IF vault.owner # owner THEN [code |-> "UNAUTHORIZED", vaults |-> vs]
            ELSE IF idx = 0 THEN [code |-> "MEMBER_NOT_FOUND", vaults |-> vs]
            ELSE [code |-> "OK", vaults |-> [vs EXCEPT ![vaultId].authorized = RemoveAt(@, idx)]]

\* VaultState.removeAuthorizedMember
removeAuthorizedMember(vs, vaultId, owner, memberToRemove) ==
    IF ~Has(vs, vaultId) THEN [code |-> "VAULT_NOT_FOUND", vaults |-> vs]
    ELSE LET vault == vs[vaultId]
             idx == IndexOf(vault.authorized, memberToRemove)
         IN IF vault.type # "team" THEN [code |-> "INVALID_VAULT_TYPE", vaults |-> vs]
            ELSE IF vault.owner # owner THEN [code |-> "UNAUTHORIZED", vaults |-> vs]
            ELSE IF memberToRemove = owner THEN [code |-> "INVALID_OPERATION", vaults |-> vs]
            ELSE IF idx = 0 THEN [code |-> "MEMBER_NOT_FOUND", vaults |-> vs]
            ELSE [code |-> "OK", vaults |-> [vs EXCEPT ![vaultId].authorized = RemoveAt(@, idx)]]

\* VaultState.listVaultURITokens: [code, tokens]
listVaultURITokens(vs, vaultId, owner) ==
    IF ~Has(vs, vaultId) THEN [code |-> "VAULT_NOT_FOUND", tokens |-> <<>>]
    ELSE LET vault == vs[vaultId]
             entryTokens == [i \in 1..Len(vault.entries) |-> vault.entries[i].tokenId]
         IN IF vault.owner # owner THEN [code |-> "UNAUTHORIZED", tokens |-> <<>>]
            ELSE [code |-> "OK",
                  tokens |-> (IF vault.manifestTokenId # Null THEN <<vault.manifestTokenId>> ELSE <<>>)
                             \o SelectSeq(entryTokens, LAMBDA t : t # Null)]

\* VaultState.deleteVault that keeps the vault.
deleteVaultKeep(vs, vaultId, owner) ==
    IF ~Has(vs, vaultId) THEN [code |-> "VAULT_NOT_FOUND", vaults |-> vs]
    ELSE IF vs[vaultId].owner # owner THEN [code |-> "UNAUTHORIZED", vaults |-> vs]
    ELSE [code |-> "OK", vaults |-> vs]

\* VaultState.deleteVault that deletes every vault of the owner.
deleteVaultsOfOwner(vs, vaultId, owner) ==
    IF ~Has(vs, vaultId) THEN [code |-> "VAULT_NOT_FOUND", vaults |-> vs]
    ELSE IF vs[vaultId].owner # owner THEN [code |-> "UNAUTHORIZED", vaults |-> vs]
    ELSE [code |-> "OK", vaults |-> [v \in {w \in DOMAIN vs : vs[w].owner # owner} |-> vs[v]]]

\* VaultState.deleteVault
deleteVault(vs, vaultId, owner) ==
    IF ~Has(vs, vaultId) THEN [code |-> "VAULT_NOT_FOUND", vaults |-> vs]
    ELSE IF vs[vaultId].owner # owner THEN [code |-> "UNAUTHORIZED", vaults |-> vs]
    ELSE [code |-> "OK", vaults |-> [v \in DOMAIN vs \ {vaultId} |-> vs[v]]]

\* VaultState.setPasswordBackup that keeps the backup the vault already has.
setPasswordBackupKeepsOld(vs, vaultId, owner, passwordBackup, updatedAt) ==
    IF ~Has(vs, vaultId) THEN [code |-> "VAULT_NOT_FOUND", vaults |-> vs]
    ELSE IF vs[vaultId].owner # owner THEN [code |-> "UNAUTHORIZED", vaults |-> vs]
    ELSE [code |-> "OK",
          vaults |-> [vs EXCEPT ![vaultId].metadata =
              [@ EXCEPT !.passwordBackup = IF @ = NoBackup THEN passwordBackup ELSE @,
                        !.vaultId = IF @ = Undefined THEN vaultId ELSE @,
                        !.lastUpdated = updatedAt]]]

\* VaultState.setPasswordBackup
setPasswordBackup(vs, vaultId, owner, passwordBackup, updatedAt) ==
    IF ~Has(vs, vaultId) THEN [code |-> "VAULT_NOT_FOUND", vaults |-> vs]
    ELSE IF vs[vaultId].owner # owner THEN [code |-> "UNAUTHORIZED", vaults |-> vs]
    ELSE [code |-> "OK",
          vaults |-> [vs EXCEPT ![vaultId].metadata =
              [@ EXCEPT !.passwordBackup = passwordBackup,
                        !.vaultId = IF @ = Undefined THEN vaultId ELSE @,
                        !.lastUpdated = updatedAt]]]

\* VaultState.clearPasswordBackup
clearPasswordBackup(vs, vaultId, owner, updatedAt) ==
    IF ~Has(vs, vaultId) THEN [code |-> "VAULT_NOT_FOUND", vaults |-> vs]
    ELSE IF vs[vaultId].owner # owner THEN [code |-> "UNAUTHORIZED", vaults |-> vs]
    ELSE [code |-> "OK",
          vaults |-> [vs EXCEPT ![vaultId].metadata =
              [@ EXCEPT !.passwordBackup = NoBackup,
                        !.vaultId = IF @ = Undefined THEN vaultId ELSE @,
                        !.lastUpdated = updatedAt]]]

(***************************************************************************)
(* Token Adapter (xrplUtils.js mintUriToken / burnUriToken).               *)
(* deps.ledger: "none" (no client or no signers), "ok" (the submission     *)
(* succeeds and the ledger returns deps.tokenId, Null when the result      *)
(* carries no meta.uritoken_id) or "fail" (it throws).  deps.failAt: with  *)
(* ledger "ok", the first call of the handler to the ledger that throws    *)
(* (0: none does).                                                         *)
(***************************************************************************)
Deps ==
    {[ledger |-> "none", tokenId |-> Null, failAt |-> 0],
     [ledger |-> "fail", tokenId |-> Null, failAt |-> 0]}
    \cup {[ledger |-> "ok", tokenId |-> t, failAt |-> f] : t \in LedgerTokenIds \cup {Null}, f \in {0, 2}}

\* The adapter dependencies as the n-th ledger call of a handler finds them.
AdapterCall(deps, n) ==
    IF deps.ledger = "ok" /\ deps.failAt # 0 /\ n >= deps.failAt
    THEN [deps EXCEPT !.ledger = "fail"]
    ELSE deps

\* The adapter inputs of a handler that calls the ledger once.
SingleCallDeps == {d \in Deps : d.failAt = 0}

\* sha256(issuer:owner:uri), modelled as its preimage; owner is "" when absent.
SimulatedTokenId(issuer, owner, uri) == "sim(" \o issuer \o ":" \o owner \o ":" \o uri \o ")"
FallbackTokenId(issuer, owner, uri) == "sim(" \o issuer \o ":" \o owner \o ":" \o uri \o ":fallback)"

\* mintUriToken that falls back to a simulated id on every failed submission,
\* whatever ENABLE_XRPL_DEV_FALLBACK says.
mintUriTokenAlwaysFallsBack(deps, uri, owner, devMode) ==
    IF deps.ledger = "none"
    THEN [code |-> "OK", tokenId |-> SimulatedTokenId(DEFAULT_URI_ISSUER, owner, uri), mode |-> "simulated"]
    ELSE IF deps.ledger = "ok"
    THEN [code |-> "OK", tokenId |-> deps.tokenId, mode |-> "submitted"]
    ELSE [code |-> "OK", tokenId |-> FallbackTokenId(DEFAULT_URI_ISSUER, owner, uri), mode |-> "simulated_fallback"]

\* mintUriToken: [code, tokenId, mode]
mintUriToken(deps, uri, owner, devMode) ==
    IF deps.ledger = "none"
    THEN [code |-> "OK", tokenId |-> SimulatedTokenId(DEFAULT_URI_ISSUER, owner, uri), mode |-> "simulated"]
    ELSE IF deps.ledger = "ok"
    THEN [code |-> "OK", tokenId |-> deps.tokenId, mode |-> "submitted"]
    ELSE IF devMode
    THEN [code |-> "OK", tokenId |-> FallbackTokenId(DEFAULT_URI_ISSUER, owner, uri), mode |-> "simulated_fallback"]
    ELSE [code |-> "XRPL_SUBMISSION_FAILED", tokenId |-> Null, mode |-> Null]

\* burnUriToken: [code, mode]
burnUriToken(deps, uriTokenId, devMode) ==
    IF uriTokenId = Null THEN [code |-> "INVALID_INPUT", mode |-> Null]
    ELSE IF deps.ledger = "none" THEN [code |-> "OK", mode |-> "simulated"]
    ELSE IF deps.ledger = "ok" THEN [code |-> "OK", mode |-> "submitted"]
    ELSE IF devMode THEN [code |-> "OK", mode |-> "simulated_fallback"]
    ELSE [code |-> "XRPL_SUBMISSION_FAILED", mode |-> Null]

(***************************************************************************)
(* Rate limiter (index.js enforceRateLimit, resolveRoundKey)               *)
(***************************************************************************)
EmptyMap == [a \in {} |-> 0]

\* limiter.perAddress.get(owner) ?? 0
CountOf(lim, owner) == IF owner \in DOMAIN lim.perAddress THEN lim.perAddress[owner] ELSE 0

\* limiter.perAddress.set(owner, n)
SetCount(perAddress, owner, n) ==
    [a \in DOMAIN perAddress \cup {owner} |-> IF a = owner THEN n ELSE perAddress[a]]

\* enforceRateLimit that never resets the counters on a new round key.
enforceRateLimitNoReset(lim, owner, roundKey) ==
    LET cur == [roundKey |-> roundKey, perAddress |-> lim.perAddress]
        count == CountOf(cur, owner)
    IN IF owner = "" THEN [code |-> "INVALID_INPUT", limiter |-> lim, owner |-> owner]
       ELSE IF count >= OPS_PER_ROUND_LIMIT THEN [code |-> "RATE_LIMIT_EXCEEDED", limiter |-> cur, owner |-> owner]
       ELSE [code |-> "OK", limiter |-> [cur EXCEPT !.perAddress = SetCount(@, owner, count + 1)],
             owner |-> owner]

\* enforceRateLimit whose comparison lets one more operation through.
enforceRateLimitOffByOne(lim, owner, roundKey) ==
    LET cur == IF lim.roundKey # roundKey THEN [roundKey |-> roundKey, perAddress |-> EmptyMap] ELSE lim
        count == CountOf(cur, owner)
    IN IF owner = "" THEN [code |-> "INVALID_INPUT", limiter |-> lim, owner |-> owner]
       ELSE IF count > OPS_PER_ROUND_LIMIT THEN [code |-> "RATE_LIMIT_EXCEEDED", limiter |-> cur, owner |-> owner]
       ELSE [code |-> "OK", limiter |-> [cur EXCEPT !.perAddress = SetCount(@, owner, count + 1)],
             owner |-> owner]

\* enforceRateLimit: [code, limiter, owner]; the reset survives a RATE_LIMIT_EXCEEDED.
enforceRateLimit(lim, owner, roundKey) ==
    LET cur == IF lim.roundKey # roundKey THEN [roundKey |-> roundKey, perAddress |-> EmptyMap] ELSE lim
        count == CountOf(cur, owner)
    IN IF owner = "" THEN [code |-> "INVALID_INPUT", limiter |-> lim, owner |-> owner]
       ELSE IF count >= OPS_PER_ROUND_LIMIT THEN [code |-> "RATE_LIMIT_EXCEEDED", limiter |-> cur, owner |-> owner]
       ELSE [code |-> "OK", limiter |-> [cur EXCEPT !.perAddress = SetCount(@, owner, count + 1)],
             owner |-> owner]

\* The number 0, which JavaScript takes for false (the runtime's round keys are
\* ledger sequence numbers; every other value here is a non-empty string).
Zero == "0"

\* resolveRoundKey: runtimeContext.roundKey when truthy, else
\* runtimeContext.lclSeqNo, op.round, op.roundKey when defined, else
\* "round-unknown".
resolveRoundKey(runtimeContext, op) ==
    IF runtimeContext.roundKey \notin {Undefined, Zero} THEN runtimeContext.roundKey
    ELSE IF runtimeContext.lclSeqNo # Undefined THEN runtimeContext.lclSeqNo
    ELSE IF op.round # Undefined THEN op.round
    ELSE IF op.roundKey # Undefined THEN op.roundKey
    ELSE "round-unknown"

(***************************************************************************)
(* Operation Dispatcher (index.js).  A handler returns                     *)
(* [code, data, vaults, limiter, limited, burned]: the response, the state *)
(* it leaves, the address its enforceRateLimit call charged and the tokens *)
(* its burnUriToken calls burned, in the order of the calls.               *)
(***************************************************************************)
NoData == [none |-> TRUE]

\* The limiter outcome of a handler that never calls enforceRateLimit.
Unlimited == [code |-> "OK", limiter |-> limiter, owner |-> ""]

\* rl: the outcome of the handler's enforceRateLimit call (Unlimited when it made
\* none); `limited` is the address the call charged, "" when there was no call.
Out(code, data, vs, rl) ==
    [code |-> code, data |-> data, vaults |-> vs, limiter |-> rl.limiter, limited |-> rl.owner,
     burned |-> <<>>, minted |-> <<>>]

\* The outcome `out` of a handler whose burnUriToken calls burned `tokens`.
WithBurned(out, tokens) == [out EXCEPT !.burned = tokens]

\* The outcome `out` of a handler whose mintUriToken call for `uri` returned
\* `mint`.
WithMinted(out, uri, mint) ==
    [out EXCEPT !.minted = <<[uri |-> uri, tokenId |-> mint.tokenId, mode |-> mint.mode]>>]

\* A failure raised before the handler touched the limiter or the store.
Reject(code) == Out(code, NoData, vaults, Unlimited)

\* A failure raised after enforceRateLimit ran that gives the slot back.
RejectRestoringLimiter(code, rl) == Out(code, NoData, vaults, [rl EXCEPT !.limiter = limiter])

\* A failure raised after enforceRateLimit ran: the limiter keeps its update.
RejectAfterLimit(code, rl) == Out(code, NoData, vaults, rl)

Base64Strings == {"Y2lwaGVy", "b3RoZXI="}
BadBase64 == "!!"

\* xrplUtils.assertBase64: TRUE iff accepted.
validBase64(input) == input \in Base64Strings

Envelope(vaultId) ==
    [version |-> 1, vaultId |-> vaultId, salt |-> "Y2lwaGVy", nonce |-> "Y2lwaGVy",
     authTag |-> "Y2lwaGVy", ciphertext |-> "Y2lwaGVy"]

\* validatePasswordBackupEnvelope: "OK" or the code it fails with.
validatePasswordBackupEnvelope(passwordBackup, vaultId) ==
    IF passwordBackup.version # 1 THEN "INVALID_INPUT"
    ELSE IF ~validVaultIdString(passwordBackup.vaultId) THEN "INVALID_INPUT"
    ELSE IF passwordBackup.vaultId # vaultId THEN "INVALID_INPUT"
    ELSE IF ~validBase64(passwordBackup.salt) \/ ~validBase64(passwordBackup.nonce)
            \/ ~validBase64(passwordBackup.authTag) \/ ~validBase64(passwordBackup.ciphertext)
         THEN "INVALID_INPUT"
    ELSE "OK"

\* normalizeVaultMetadata: [code, metadata]
normalizeVaultMetadata(metadata, vaultId, roundKey) ==
    IF metadata.vaultId # Undefined /\ metadata.vaultId # vaultId
    THEN [code |-> "INVALID_METADATA", metadata |-> metadata]
    ELSE [code |-> "OK",
          metadata |-> [vaultId |-> vaultId, blobVersion |-> 1, lastUpdated |-> roundKey,
                        passwordBackup |-> metadata.passwordBackup]]

\* validateAddressArray: "OK" or the code it fails with.
validateAddressArray(values) ==
    IF Len(values) > 50 THEN "INVALID_INPUT"
    ELSE IF \E i \in 1..Len(values) : ~validClassicAddress(values[i]) THEN "INVALID_ADDRESS"
    ELSE "OK"

\* validateWrappedKeys: "OK" or the code it fails with (first offending item).
validateWrappedKeys(wrappedKeys) ==
    IF Len(wrappedKeys) > 200 THEN "INVALID_INPUT"
    ELSE IF \E i \in 1..Len(wrappedKeys) :
               ~validClassicAddress(wrappedKeys[i].address) \/ ~validBase64(wrappedKeys[i].encryptedKey)
    THEN LET i == CHOOSE k \in 1..Len(wrappedKeys) :
                    /\ ~validClassicAddress(wrappedKeys[k].address) \/ ~validBase64(wrappedKeys[k].encryptedKey)
                    /\ \A j \in 1..(k - 1) : validClassicAddress(wrappedKeys[j].address)
                                             /\ validBase64(wrappedKeys[j].encryptedKey)
         IN IF ~validClassicAddress(wrappedKeys[i].address) THEN "INVALID_ADDRESS" ELSE "INVALID_INPUT"
    ELSE "OK"

\* ensureTeamModeEnabled without the test of the flag.
teamModeNeverChecked == "OK"

\* ensureTeamModeEnabled: "OK" or the code it fails with.
ensureTeamModeEnabled == IF cfg.teamMode THEN "OK" ELSE "TEAM_MODE_DISABLED"

\* createTeamVaultHandler
createTeamVaultHandler(payload, deps, roundKey) ==
    LET vaultId == buildVaultId(payload.owner, payload.salt)
        sig == verifySignedPayload(
                   [type |-> "team", owner |-> payload.owner, salt |-> payload.salt,
                    metadata |-> payload.metadata, initialAuthorized |-> payload.initialAuthorized],
                   payload.signature, payload.signerPublicKey, payload.owner)
        rl == enforceRateLimit(limiter, payload.owner, roundKey)
        mint == mintUriToken(deps, PlaceholderUri, "", cfg.devFallback)
        norm == normalizeVaultMetadata(payload.metadata, vaultId, roundKey)
        created == createVault(vaults, payload.owner, payload.salt, norm.metadata, roundKey,
                               mint.tokenId, "team", payload.initialAuthorized, <<>>)
    IN IF ensureTeamModeEnabled # "OK" THEN Reject(ensureTeamModeEnabled)
       ELSE IF ~validClassicAddress(payload.owner) THEN Reject("INVALID_ADDRESS")
       ELSE IF ~validHexSalt(payload.salt) THEN Reject("INVALID_SALT")
       ELSE IF validateAddressArray(payload.initialAuthorized) # "OK"
            THEN Reject(validateAddressArray(payload.initialAuthorized))
       ELSE IF payload.metadata.passwordBackup # NoBackup
               /\ validatePasswordBackupEnvelope(payload.metadata.passwordBackup, vaultId) # "OK"
            THEN Reject("INVALID_INPUT")
       ELSE IF sig # "OK" THEN Reject(sig)
       ELSE IF rl.code # "OK" THEN RejectAfterLimit(rl.code, rl)
       ELSE IF mint.code # "OK" THEN RejectAfterLimit(mint.code, rl)
       ELSE IF norm.code # "OK" THEN WithMinted(RejectAfterLimit(norm.code, rl), PlaceholderUri, mint)
       ELSE IF created.code # "OK" THEN WithMinted(RejectAfterLimit(created.code, rl), PlaceholderUri, mint)
       ELSE WithMinted(
                Out("OK",
                    [vaultId |-> vaultId, owner |-> payload.owner, type |-> "team", createdAt |-> roundKey,
                     manifestTokenId |-> mint.tokenId,
                     authorizedCount |-> Len(created.vaults[vaultId].authorized), mintMode |-> mint.mode],
                    created.vaults, rl),
                PlaceholderUri, mint)

\* createVaultHandler (payload.type is "individual" when the request leaves it out)
createVaultHandler(payload, deps, roundKey) ==
    LET vaultId == buildVaultId(payload.owner, payload.salt)
        sig == verifySignedPayload(
                   [type |-> payload.type, owner |-> payload.owner, salt |-> payload.salt,
                    metadata |-> payload.metadata],
                   payload.signature, payload.signerPublicKey, payload.owner)
        rl == enforceRateLimit(limiter, payload.owner, roundKey)
        norm == normalizeVaultMetadata(payload.metadata, vaultId, roundKey)
        mint == mintUriToken(deps, PlaceholderUri, "", cfg.devFallback)
        created == createVault(vaults, payload.owner, payload.salt, norm.metadata, roundKey,
                               mint.tokenId, "individual", <<>>, <<>>)
    IN IF payload.type = "team" THEN createTeamVaultHandler(payload, deps, roundKey)
       ELSE IF payload.type # "individual" THEN Reject("UNSUPPORTED_VAULT_TYPE")
       ELSE IF ~validClassicAddress(payload.owner) THEN Reject("INVALID_ADDRESS")
       ELSE IF ~validHexSalt(payload.salt) THEN Reject("INVALID_SALT")
       ELSE IF payload.metadata.passwordBackup # NoBackup
               /\ validatePasswordBackupEnvelope(payload.metadata.passwordBackup, vaultId) # "OK"
            THEN Reject("INVALID_INPUT")
       ELSE IF sig # "OK" THEN Reject(sig)
       ELSE IF rl.code # "OK" THEN RejectAfterLimit(rl.code, rl)
       ELSE IF norm.code # "OK" THEN RejectAfterLimit(norm.code, rl)
       ELSE IF mint.code # "OK" THEN RejectAfterLimit(mint.code, rl)
       ELSE IF created.code # "OK" THEN WithMinted(RejectAfterLimit(created.code, rl), PlaceholderUri, mint)
       ELSE WithMinted(
                Out("OK",
                    [vaultId |-> vaultId, owner |-> payload.owner, createdAt |-> roundKey,
                     manifestTokenId |-> mint.tokenId, mintMode |-> mint.mode],
                    created.vaults, rl),
                PlaceholderUri, mint)

\* inviteToVaultHandler that calls enforceRateLimit before verifySignedPayload.
inviteToVaultHandlerLimitsFirst(payload, roundKey) ==
    IF ensureTeamModeEnabled # "OK" THEN Reject(ensureTeamModeEnabled)
    ELSE IF ~validVaultIdString(payload.vaultId) THEN Reject("INVALID_INPUT")
    ELSE IF payload.invitee = BadAddress THEN Reject("INVALID_INPUT")
    ELSE IF ~validClassicAddress(payload.invitee) THEN Reject("INVALID_ADDRESS")
    ELSE IF ~Has(vaults, payload.vaultId) THEN Reject("VAULT_NOT_FOUND")
    ELSE IF vaults[payload.vaultId].type # "team" THEN Reject("INVALID_VAULT_TYPE")
    ELSE LET inviter == vaults[payload.vaultId].owner
             sig == verifySignedPayload(
                        [vaultId |-> payload.vaultId, invitee |-> payload.invitee, action |-> "inviteToVault"],
                        payload.signature, payload.signerPublicKey, inviter)
             rl == enforceRateLimit(limiter, inviter, roundKey)
             invited == addPendingInvite(vaults, payload.vaultId, inviter, payload.invitee, roundKey)
         IN IF rl.code # "OK" THEN RejectAfterLimit(rl.code, rl)
            ELSE IF sig # "OK" THEN RejectAfterLimit(sig, rl)
            ELSE IF invited.code # "OK" THEN RejectAfterLimit(invited.code, rl)
            ELSE Out("OK",
                     [success |-> TRUE,
                      pendingInviteCount |-> Len(invited.vaults[payload.vaultId].pendingInvites),
                      invitee |-> payload.invitee],
                     invited.vaults, rl)

\* inviteToVaultHandler
inviteToVaultHandler(payload, roundKey) ==
    IF ensureTeamModeEnabled # "OK" THEN Reject(ensureTeamModeEnabled)
    ELSE IF ~validVaultIdString(payload.vaultId) THEN Reject("INVALID_INPUT")
    ELSE IF payload.invitee = BadAddress THEN Reject("INVALID_INPUT")
    ELSE IF ~validClassicAddress(payload.invitee) THEN Reject("INVALID_ADDRESS")
    ELSE IF ~Has(vaults, payload.vaultId) THEN Reject("VAULT_NOT_FOUND")
    ELSE IF vaults[payload.vaultId].type # "team" THEN Reject("INVALID_VAULT_TYPE")
    ELSE LET inviter == vaults[payload.vaultId].owner
             sig == verifySignedPayload(
                        [vaultId |-> payload.vaultId, invitee |-> payload.invitee, action |-> "inviteToVault"],
                        payload.signature, payload.signerPublicKey, inviter)
             rl == enforceRateLimit(limiter, inviter, roundKey)
             invited == addPendingInvite(vaults, payload.vaultId, inviter, payload.invitee, roundKey)
         IN IF sig # "OK" THEN Reject(sig)
            ELSE IF rl.code # "OK" THEN RejectAfterLimit(rl.code, rl)
            ELSE IF invited.code # "OK" THEN RejectAfterLimit(invited.code, rl)
            ELSE Out("OK",
                     [success |-> TRUE,
                      pendingInviteCount |-> Len(invited.vaults[payload.vaultId].pendingInvites),
                      invitee |-> payload.invitee],
                     invited.vaults, rl)

\* acceptInviteHandler
acceptInviteHandler(payload, roundKey) ==
    IF ensureTeamModeEnabled # "OK" THEN Reject(ensureTeamModeEnabled)
    ELSE IF ~validVaultIdString(payload.vaultId) THEN Reject("INVALID_INPUT")
    ELSE IF payload.signerPublicKey \notin Keys THEN Reject("INVALID_SIGNATURE")
    ELSE LET signerAddress == deriveAddress(payload.signerPublicKey)
             sig == verifySignedPayload(
                        [vaultId |-> payload.vaultId, action |-> "acceptInvite"],
                        payload.signature, payload.signerPublicKey, signerAddress)
             rl == enforceRateLimit(limiter, signerAddress, roundKey)
             accepted == acceptPendingInvite(vaults, payload.vaultId, signerAddress)
             invites == vaults[payload.vaultId].pendingInvites
             invite == invites[IndexOf(InviteAddresses(invites), signerAddress)]
         IN IF ~validClassicAddress(signerAddress) THEN Reject("INVALID_ADDRESS")
            ELSE IF sig # "OK" THEN Reject(sig)
            ELSE IF rl.code # "OK" THEN RejectAfterLimit(rl.code, rl)
            ELSE IF accepted.code # "OK" THEN RejectAfterLimit(accepted.code, rl)
            ELSE Out("OK",
                     [success |-> TRUE,
                      authorizedCount |-> Len(accepted.vaults[payload.vaultId].authorized),
                      invitedBy |-> invite.invitedBy],
                     accepted.vaults, rl)

\* getPendingInvitesHandler
getPendingInvitesHandler(payload) ==
    IF ensureTeamModeEnabled # "OK" THEN Reject(ensureTeamModeEnabled)
    ELSE IF ~validVaultIdString(payload.vaultId) THEN Reject("INVALID_INPUT")
    ELSE IF ~Has(vaults, payload.vaultId) THEN Reject("VAULT_NOT_FOUND")
    ELSE IF vaults[payload.vaultId].type # "team" THEN Reject("INVALID_VAULT_TYPE")
    ELSE LET vault == vaults[payload.vaultId]
             sig == verifySignedPayload(
                        [vaultId |-> payload.vaultId, action |-> "getPendingInvites"],
                        payload.signature, payload.signerPublicKey, vault.owner)
         IN IF sig # "OK" THEN Reject(sig)
            ELSE Out("OK", [vaultId |-> payload.vaultId, pendingInvites |-> vault.pendingInvites],
                     vaults, Unlimited)

\* removeMemberHandler
removeMemberHandler(payload, roundKey) ==
    IF ensureTeamModeEnabled # "OK" THEN Reject(ensureTeamModeEnabled)
    ELSE IF ~validVaultIdString(payload.vaultId) THEN Reject("INVALID_INPUT")
    ELSE IF payload.memberToRemove = BadAddress THEN Reject("INVALID_INPUT")
    ELSE IF ~validClassicAddress(payload.memberToRemove) THEN Reject("INVALID_ADDRESS")
    ELSE IF ~Has(vaults, payload.vaultId) THEN Reject("VAULT_NOT_FOUND")
    ELSE IF vaults[payload.vaultId].type # "team" THEN Reject("INVALID_VAULT_TYPE")
    ELSE LET owner == vaults[payload.vaultId].owner
             sig == verifySignedPayload(
                        [vaultId |-> payload.vaultId, memberToRemove |-> payload.memberToRemove,
                         action |-> "removeMember"],
                        payload.signature, payload.signerPublicKey, owner)
             rl == enforceRateLimit(limiter, owner, roundKey)
             removed == removeAuthorizedMember(vaults, payload.vaultId, owner, payload.memberToRemove)
         IN IF sig # "OK" THEN Reject(sig)
            ELSE IF rl.code # "OK" THEN RejectAfterLimit(rl.code, rl)
            ELSE IF removed.code # "OK" THEN RejectAfterLimit(removed.code, rl)
            ELSE Out("OK",
                     [success |-> TRUE,
                      authorizedCount |-> Len(removed.vaults[payload.vaultId].authorized)],
                     removed.vaults, rl)

\* revokeInviteHandler
revokeInviteHandler(payload, roundKey) ==
    IF ensureTeamModeEnabled # "OK" THEN Reject(ensureTeamModeEnabled)
    ELSE IF ~validVaultIdString(payload.vaultId) THEN Reject("INVALID_INPUT")
    ELSE IF payload.pendingAddress = BadAddress THEN Reject("INVALID_INPUT")
    ELSE IF ~validClassicAddress(payload.pendingAddress) THEN Reject("INVALID_ADDRESS")
    ELSE IF ~Has(vaults, payload.vaultId) THEN Reject("VAULT_NOT_FOUND")
    ELSE IF vaults[payload.vaultId].type # "team" THEN Reject("INVALID_VAULT_TYPE")
    ELSE LET owner == vaults[payload.vaultId].owner
             sig == verifySignedPayload(
                        [vaultId |-> payload.vaultId, pendingAddress |-> payload.pendingAddress,
                         action |-> "revokeInvite"],
                        payload.signature, payload.signerPublicKey, owner)
             rl == enforceRateLimit(limiter, owner, roundKey)
             revoked == revokePendingInvite(vaults, payload.vaultId, owner, payload.pendingAddress)
         IN IF sig # "OK" THEN Reject(sig)
            ELSE IF rl.code # "OK" THEN RejectAfterLimit(rl.code, rl)
            ELSE IF revoked.code # "OK" THEN RejectAfterLimit(revoked.code, rl)
            ELSE Out("OK",
                     [success |-> TRUE,
                      pendingInviteCount |-> Len(revoked.vaults[payload.vaultId].pendingInvites)],
                     revoked.vaults, rl)

HexBlobs == {"abcd"}
BadHexBlob == "xyz"
ShortUri == "ipfs://"

\* A build whose mutable-URI flag is never on.
mutableUriTokensNeverEnabled == FALSE

\* config.js isMutableUriTokensEnabled, read once into ENABLE_MUTABLE_URITOKENS.
isMutableUriTokensEnabled == cfg.mutableUriTokens

\* updateVaultManifestHandler
updateVaultManifestHandler(payload, deps, roundKey) ==
    IF ensureTeamModeEnabled # "OK" THEN Reject(ensureTeamModeEnabled)
    ELSE IF ~validVaultIdString(payload.vaultId) THEN Reject("INVALID_INPUT")
    ELSE IF payload.newUri = Undefined /\ payload.newBlobHex = Undefined THEN Reject("INVALID_INPUT")
    ELSE IF payload.newUri # Undefined /\ payload.newUri = ShortUri THEN Reject("INVALID_INPUT")
    ELSE IF payload.newBlobHex # Undefined /\ payload.newBlobHex \notin HexBlobs THEN Reject("INVALID_INPUT")
    ELSE IF ~Has(vaults, payload.vaultId) THEN Reject("VAULT_NOT_FOUND")
    ELSE IF vaults[payload.vaultId].type # "team" THEN Reject("INVALID_VAULT_TYPE")
    ELSE LET vault == vaults[payload.vaultId]
             owner == vault.owner
             sig == verifySignedPayload(
                        [vaultId |-> payload.vaultId,
                         newUri |-> IF payload.newUri = Undefined THEN Null ELSE payload.newUri,
                         newBlobHex |-> IF payload.newBlobHex = Undefined THEN Null ELSE payload.newBlobHex,
                         action |-> "updateVaultManifest"],
                        payload.signature, payload.signerPublicKey, owner)
             rl == enforceRateLimit(limiter, owner, roundKey)
             burned == burnUriToken(AdapterCall(deps, 1), vault.manifestTokenId, cfg.devFallback)
             nextUri == IF payload.newUri = Undefined THEN PlaceholderUri ELSE payload.newUri
             reminted == mintUriToken(AdapterCall(deps, 2), nextUri, "", cfg.devFallback)
         IN IF sig # "OK" THEN Reject(sig)
            ELSE IF rl.code # "OK" THEN RejectAfterLimit(rl.code, rl)
            ELSE IF isMutableUriTokensEnabled
                 THEN Out("OK",
                          [success |-> TRUE, mode |-> "mutable_stub",
                           manifestTokenId |-> vault.manifestTokenId],
                          vaults, rl)
            ELSE IF burned.code # "OK" THEN RejectAfterLimit(burned.code, rl)
            ELSE IF reminted.code # "OK"
                 THEN WithBurned(RejectAfterLimit(reminted.code, rl), <<vault.manifestTokenId>>)
            ELSE WithMinted(
                     WithBurned(
                         Out("OK",
                             [success |-> TRUE, mode |-> "burn_remint", manifestTokenId |-> reminted.tokenId,
                              burnMode |-> burned.mode, mintMode |-> reminted.mode],
                             [vaults EXCEPT ![payload.vaultId].manifestTokenId = reminted.tokenId],
                             rl),
                         <<vault.manifestTokenId>>),
                     nextUri, reminted)

\* listVaultURITokensHandler
listVaultURITokensHandler(payload) ==
    IF ~validVaultIdString(payload.vaultId) THEN Reject("INVALID_INPUT")
    ELSE IF ~Has(vaults, payload.vaultId) THEN Reject("VAULT_NOT_FOUND")
    ELSE LET owner == vaults[payload.vaultId].owner
             sig == verifySignedPayload(
                        [vaultId |-> payload.vaultId, action |-> "listVaultURITokens"],
                        payload.signature, payload.signerPublicKey, owner)
             listed == listVaultURITokens(vaults, payload.vaultId, owner)
         IN IF sig # "OK" THEN Reject(sig)
            ELSE IF listed.code # "OK" THEN Reject(listed.code)
            ELSE Out("OK", [vaultId |-> payload.vaultId, tokenIds |-> listed.tokens], vaults, Unlimited)

\* A revocation that asks for no confirmation at all.
confirmationNeverRequired(vault, payload) == FALSE

\* revokeVaultHandler: vault.type === "team" && payload.confirm !== true
confirmationRequired(vault, payload) == vault.type = "team" /\ ~payload.confirm

\* revokeVaultHandler (payload.confirm is the value of `payload.confirm === true`)
revokeVaultHandler(payload, deps, roundKey) ==
    IF ~validVaultIdString(payload.vaultId) THEN Reject("INVALID_INPUT")
    ELSE IF ~Has(vaults, payload.vaultId) THEN Reject("VAULT_NOT_FOUND")
    ELSE LET vault == vaults[payload.vaultId]
             owner == vault.owner
             sig == verifySignedPayload(
                        [vaultId |-> payload.vaultId, confirm |-> payload.confirm, action |-> "revokeVault"],
                        payload.signature, payload.signerPublicKey, owner)
             rl == enforceRateLimit(limiter, owner, roundKey)
             listed == listVaultURITokens(vaults, payload.vaultId, owner)
             burns == [i \in 1..Len(listed.tokens) |->
                          burnUriToken(AdapterCall(deps, i), listed.tokens[i], cfg.devFallback)]
             deleted == deleteVault(vaults, payload.vaultId, owner)
         IN IF sig # "OK" THEN Reject(sig)
            ELSE IF rl.code # "OK" THEN RejectAfterLimit(rl.code, rl)
            ELSE IF confirmationRequired(vault, payload)
                 THEN RejectAfterLimit("CONFIRMATION_REQUIRED", rl)
            ELSE IF listed.code # "OK" THEN RejectAfterLimit(listed.code, rl)
            ELSE IF \E i \in 1..Len(burns) : burns[i].code # "OK"
                 THEN LET failed == CHOOSE i \in 1..Len(burns) :
                                      burns[i].code # "OK" /\ \A j \in 1..(i - 1) : burns[j].code = "OK"
                      IN WithBurned(RejectAfterLimit(burns[failed].code, rl),
                                    SubSeq(listed.tokens, 1, failed - 1))
            ELSE IF deleted.code # "OK" THEN WithBurned(RejectAfterLimit(deleted.code, rl), listed.tokens)
            ELSE WithBurned(
                     Out("OK", [success |-> TRUE, burnedTokens |-> Len(listed.tokens)],
                         deleted.vaults, rl),
                     listed.tokens)

\* addEntryHandler (payload.actor is `payload.actor ?? payload.owner`)
addEntryHandler(payload, deps, roundKey) ==
    IF ~validVaultIdString(payload.vaultId) THEN Reject("INVALID_INPUT")
    ELSE IF payload.actor = BadAddress THEN Reject("INVALID_INPUT")
    ELSE IF ~validClassicAddress(payload.actor) THEN Reject("INVALID_ADDRESS")
    ELSE IF ~validBase64(payload.encryptedBlob) THEN Reject("INVALID_INPUT")
    ELSE IF ~isLikelyIpfsCid(payload.cid) THEN Reject("INVALID_CID")
    ELSE IF payload.entryMetadata.service = "" THEN Reject("INVALID_INPUT")
    ELSE IF validateWrappedKeys(payload.wrappedKeys) # "OK" THEN Reject(validateWrappedKeys(payload.wrappedKeys))
    ELSE IF ~Has(vaults, payload.vaultId) THEN Reject("VAULT_NOT_FOUND")
    ELSE LET vault == vaults[payload.vaultId]
             sig == verifySignedPayload(
                        [vaultId |-> payload.vaultId, actor |-> payload.actor,
                         encryptedBlob |-> payload.encryptedBlob, cid |-> payload.cid,
                         entryMetadata |-> payload.entryMetadata, wrappedKeys |-> payload.wrappedKeys],
                        payload.signature, payload.signerPublicKey, payload.actor)
             rl == enforceRateLimit(limiter, payload.actor, roundKey)
             mint == mintUriToken(deps, "ipfs://" \o payload.cid, vault.owner, cfg.devFallback)
             added == addEntry(vaults, payload.vaultId, payload.actor, payload.cid, payload.entryMetadata,
                               payload.wrappedKeys, roundKey, mint.tokenId)
         IN IF sig # "OK" THEN Reject(sig)
            ELSE IF rl.code # "OK" THEN RejectAfterLimit(rl.code, rl)
            ELSE IF mint.code # "OK" THEN RejectAfterLimit(mint.code, rl)
            ELSE IF added.code # "OK"
                 THEN WithMinted(RejectAfterLimit(added.code, rl), "ipfs://" \o payload.cid, mint)
            ELSE LET entry == added.vaults[payload.vaultId].entries[Len(added.vaults[payload.vaultId].entries)]
                 IN WithMinted(
                        Out("OK",
                            [vaultId |-> payload.vaultId, tokenId |-> entry.tokenId, cid |-> entry.cid,
                             createdAt |-> entry.createdAt, metadata |-> entry.metadata,
                             mintMode |-> mint.mode],
                            added.vaults, rl),
                        "ipfs://" \o payload.cid, mint)

\* cidUtils.buildGatewayFetchUrl with the configured gateway base
buildGatewayFetchUrl(cid) == "https://gateway/ipfs/" \o cid

\* getEntryHandler.  payload.hasIndex: entryIndex is neither undefined nor null (an
\* integer, 0-based); payload.hasTokenId: tokenId is a non-empty string.
getEntryHandler(payload) ==
    IF ~validVaultIdString(payload.vaultId) THEN Reject("INVALID_INPUT")
    ELSE IF ~payload.hasIndex /\ ~payload.hasTokenId THEN Reject("INVALID_INPUT")
    ELSE IF payload.actor = BadAddress THEN Reject("INVALID_INPUT")
    ELSE IF ~validClassicAddress(payload.actor) THEN Reject("INVALID_ADDRESS")
    ELSE LET sig == verifySignedPayload(
                        [vaultId |-> payload.vaultId, actor |-> payload.actor,
                         hasIndex |-> payload.hasIndex,
                         entryIndex |-> IF payload.hasIndex THEN payload.entryIndex ELSE 0,
                         tokenId |-> IF payload.hasTokenId THEN payload.tokenId ELSE Null],
                        payload.signature, payload.signerPublicKey, payload.actor)
             got == getEntry(vaults, payload.vaultId, payload.actor, payload.hasIndex, payload.entryIndex,
                             payload.hasTokenId, payload.tokenId)
         IN IF sig # "OK" THEN Reject(sig)
            ELSE IF got.code # "OK" THEN Reject(got.code)
            ELSE Out("OK",
                     [cid |-> got.entry.cid, metadata |-> got.entry.metadata,
                      gatewayUrl |-> buildGatewayFetchUrl(got.entry.cid)],
                     vaults, Unlimited)

\* Number(roundKey) of the round keys in use.
Num(r) == CASE r = "1" -> 1 [] r = "2" -> 2 [] r = "3" -> 3 [] OTHER -> 0

\* state.js compareCreatedAt(left, right) > 0, for numeric round keys
CreatedAfter(left, right) == Num(left) > Num(right)

\* The summary getMyVaults gives of a vault.
Summary(vault) ==
    [vaultId |-> vault.id, type |-> vault.type, createdAt |-> vault.createdAt,
     entryCount |-> Len(vault.entries),
     authorizedCount |-> IF vault.type = "team" THEN Len(vault.authorized) ELSE 1,
     pendingInviteCount |-> IF vault.type = "team" THEN Len(vault.pendingInvites) ELSE 0,
     manifestTokenId |-> vault.manifestTokenId,
     lastActivity |-> IF Len(vault.entries) > 0 THEN vault.entries[Len(vault.entries)].createdAt ELSE Null]

\* Object.values(this.vaults): the vaults in the order of the keys of the
\* object.  The map of the model keeps no key order: one fixed order of the ids
\* stands for it.
RECURSIVE ObjectValues(_, _)
ObjectValues(vs, ids) ==
    IF ids = {} THEN <<>>
    ELSE LET v == CHOOSE x \in ids : TRUE IN <<vs[v]>> \o ObjectValues(vs, ids \ {v})

\* Array.prototype.sort (stable) with the comparator
\* (a, b) => compareCreatedAt(b.createdAt, a.createdAt): each element goes in
\* front of the first one created before it.
InsertByCreatedAtDesc(sorted, x) ==
    LET older == {i \in 1..Len(sorted) : CreatedAfter(x.createdAt, sorted[i].createdAt)}
        k == IF older = {} THEN Len(sorted) + 1 ELSE CHOOSE i \in older : \A o \in older : i <= o
    IN SubSeq(sorted, 1, k - 1) \o <<x>> \o SubSeq(sorted, k, Len(sorted))

RECURSIVE SortByCreatedAtDesc(_)
SortByCreatedAtDesc(seq) ==
    IF seq = <<>> THEN <<>>
    ELSE InsertByCreatedAtDesc(SortByCreatedAtDesc(SubSeq(seq, 1, Len(seq) - 1)), seq[Len(seq)])

\* VaultState.getMyVaults with the sort left out.
getMyVaultsUnsorted(vs, owner, since) ==
    LET owned == SelectSeq(ObjectValues(vs, DOMAIN vs), LAMBDA vault : vault.owner = owner)
        recent == SelectSeq(owned, LAMBDA vault : since = Null \/ CreatedAfter(vault.createdAt, since))
    IN [i \in 1..Len(recent) |-> Summary(recent[i])]

\* VaultState.getMyVaults: filter by owner, filter by since, map to summaries,
\* sort by createdAt descending.
getMyVaults(vs, owner, since) ==
    LET owned == SelectSeq(ObjectValues(vs, DOMAIN vs), LAMBDA vault : vault.owner = owner)
        recent == SelectSeq(owned, LAMBDA vault : since = Null \/ CreatedAfter(vault.createdAt, since))
    IN SortByCreatedAtDesc([i \in 1..Len(recent) |-> Summary(recent[i])])

\* getMyVaultsHandler that charges the owner's quota of the stored round.
getMyVaultsHandlerRateLimited(payload) ==
    IF payload.owner = BadAddress THEN Reject("INVALID_INPUT")
    ELSE IF ~validClassicAddress(payload.owner) THEN Reject("INVALID_ADDRESS")
    ELSE LET rl == enforceRateLimit(limiter, payload.owner, limiter.roundKey)
         IN IF rl.code # "OK" THEN RejectAfterLimit(rl.code, rl)
            ELSE Out("OK", getMyVaults(vaults, payload.owner, payload.since), vaults, rl)

\* getMyVaultsHandler (unsigned)
getMyVaultsHandler(payload) ==
    IF payload.owner = BadAddress THEN Reject("INVALID_INPUT")
    ELSE IF ~validClassicAddress(payload.owner) THEN Reject("INVALID_ADDRESS")
    ELSE Out("OK", getMyVaults(vaults, payload.owner, payload.since), vaults, Unlimited)

\* VaultState.digest: sha256 of the canonical snapshot, modelled as the snapshot.
digest(vs) == [vaults |-> vs]

\* handleOperation case "stateDigest"
stateDigestHandler == Out("OK", [digest |-> digest(vaults)], vaults, Unlimited)

\* addPasswordBackupHandler
addPasswordBackupHandler(payload, roundKey) ==
    IF ~validVaultIdString(payload.vaultId) THEN Reject("INVALID_INPUT")
    ELSE IF payload.actor = BadAddress THEN Reject("INVALID_INPUT")
    ELSE IF ~validClassicAddress(payload.actor) THEN Reject("INVALID_ADDRESS")
    ELSE IF validatePasswordBackupEnvelope(payload.passwordBackup, payload.vaultId) # "OK"
         THEN Reject("INVALID_INPUT")
    ELSE IF ~Has(vaults, payload.vaultId) THEN Reject("VAULT_NOT_FOUND")
    ELSE LET owner == vaults[payload.vaultId].owner
             sig == verifySignedPayload(
                        [vaultId |-> payload.vaultId, actor |-> payload.actor,
                         action |-> "addPasswordBackup", passwordBackup |-> payload.passwordBackup],
                        payload.signature, payload.signerPublicKey, owner)
             rl == enforceRateLimit(limiter, owner, roundKey)
             set == setPasswordBackup(vaults, payload.vaultId, owner, payload.passwordBackup, roundKey)
         IN IF payload.actor # owner THEN Reject("UNAUTHORIZED")
            ELSE IF sig # "OK" THEN Reject(sig)
            ELSE IF rl.code # "OK" THEN RejectAfterLimit(rl.code, rl)
            ELSE IF set.code # "OK" THEN RejectAfterLimit(set.code, rl)
            ELSE Out("OK", [success |-> TRUE], set.vaults, rl)

\* removePasswordBackupHandler
removePasswordBackupHandler(payload, roundKey) ==
    IF ~validVaultIdString(payload.vaultId) THEN Reject("INVALID_INPUT")
    ELSE IF payload.actor = BadAddress THEN Reject("INVALID_INPUT")
    ELSE IF ~validClassicAddress(payload.actor) THEN Reject("INVALID_ADDRESS")
    ELSE IF ~Has(vaults, payload.vaultId) THEN Reject("VAULT_NOT_FOUND")
    ELSE LET owner == vaults[payload.vaultId].owner
             sig == verifySignedPayload(
                        [vaultId |-> payload.vaultId, actor |-> payload.actor,
                         action |-> "removePasswordBackup"],
                        payload.signature, payload.signerPublicKey, owner)
             rl == enforceRateLimit(limiter, owner, roundKey)
             cleared == clearPasswordBackup(vaults, payload.vaultId, owner, roundKey)
         IN IF payload.actor # owner THEN Reject("UNAUTHORIZED")
            ELSE IF sig # "OK" THEN Reject(sig)
            ELSE IF rl.code # "OK" THEN RejectAfterLimit(rl.code, rl)
            ELSE IF cleared.code # "OK" THEN RejectAfterLimit(cleared.code, rl)
            ELSE Out("OK", [success |-> TRUE], cleared.vaults, rl)

\* getVaultMetadataHandler
getVaultMetadataHandler(payload) ==
    IF ~validVaultIdString(payload.vaultId) THEN Reject("INVALID_INPUT")
    ELSE IF payload.actor = BadAddress THEN Reject("INVALID_INPUT")
    ELSE IF ~validClassicAddress(payload.actor) THEN Reject("INVALID_ADDRESS")
    ELSE IF ~Has(vaults, payload.vaultId) THEN Reject("VAULT_NOT_FOUND")
    ELSE LET owner == vaults[payload.vaultId].owner
             sig == verifySignedPayload(
                        [vaultId |-> payload.vaultId, actor |-> payload.actor, action |-> "getVaultMetadata"],
                        payload.signature, payload.signerPublicKey, owner)
         IN IF payload.actor # owner THEN Reject("UNAUTHORIZED")
            ELSE IF sig # "OK" THEN Reject(sig)
            ELSE Out("OK", [vaultId |-> payload.vaultId, metadata |-> vaults[payload.vaultId].metadata],
                     vaults, Unlimited)

(***************************************************************************)
(* Requests.  A request is {type, payload} with the runtime context and    *)
(* the Token Adapter dependencies handleOperation is called with.  Each    *)
(* operation's set is given for the round inputs of the environment.       *)
(***************************************************************************)
\* The round inputs of a call: the runtimeContext it is made with and the round
\* fields of the request itself.
RoundInput(ctxRoundKey, lclSeqNo, opRound, opRoundKey) ==
    [ctx |-> [roundKey |-> ctxRoundKey, lclSeqNo |-> lclSeqNo],
     op |-> [round |-> opRound, roundKey |-> opRoundKey]]

\* One consensus round: the runtime gives every call the round key "1".
OneRound == {RoundInput("1", "1", "2", Undefined)}

\* Calls whose round key changes from one call to the next, in any order: "1"
\* from the runtime or from op.roundKey, "2" from op.round.
AnyRound ==
    {RoundInput("1", "1", "2", Undefined),
     RoundInput(Undefined, Undefined, "2", "1"),
     RoundInput(Undefined, Undefined, Undefined, "1")}

RoundKeyOf(req) == resolveRoundKey(req.round.ctx, req.round.op)

\* Credentials made by one key over the right preimage, that key declared.
Honest(h) == {[signerPublicKey |-> k, signature |-> [by |-> k, over |-> h]] : k \in Keys}

\* Credentials that no handler accepts: forged, tampered, missing.
Dishonest(h) == Credentials(h) \ Honest(h)

Signed(payload, cred) ==
    [f \in DOMAIN payload \cup {"signerPublicKey", "signature"} |->
        IF f = "signerPublicKey" THEN cred.signerPublicKey
        ELSE IF f = "signature" THEN cred.signature
        ELSE payload[f]]

Req(type, payload, round, deps) == [type |-> type, payload |-> payload, round |-> round, deps |-> deps]

DefaultRound == RoundInput("1", "1", "2", Undefined)
DefaultDeps == [ledger |-> "none", tokenId |-> Null, failAt |-> 0]

\* A payload signed by each key in turn, for every round and adapter input.
Variants(type, payload, preimage, rounds, depsSet) ==
    {Req(type, Signed(payload, c), r, d) : c \in Honest(preimage), r \in rounds, d \in depsSet}

\* A payload under every credential that is not an honest one.
Forgeries(type, payload, preimage) ==
    {Req(type, Signed(payload, c), DefaultRound, DefaultDeps) : c \in Dishonest(preimage)}

\* A payload signed by the key of rA: for payloads a validator turns down.
Plain(type, payload, preimage) ==
    Req(type, Signed(payload, [signerPublicKey |-> "kA", signature |-> [by |-> "kA", over |-> preimage]]),
        DefaultRound, DefaultDeps)

EmptyMetadata == [vaultId |-> Undefined, passwordBackup |-> NoBackup]

RawMetadatas(vaultId) ==
    {EmptyMetadata, [vaultId |-> vaultId, passwordBackup |-> Envelope(vaultId)]}

BadRawMetadatas(vaultId) ==
    {[vaultId |-> "sha256(other)", passwordBackup |-> NoBackup],
     [vaultId |-> Undefined, passwordBackup |-> Envelope("sha256(other)")],
     [vaultId |-> Undefined, passwordBackup |-> [Envelope(vaultId) EXCEPT !.version = 2]]}

InitialAuthorizedLists(owner) ==
    {<<>>} \cup {<<a>> : a \in Addresses \ {owner}} \cup {<<owner, a, a>> : a \in Addresses \ {owner}}

CreateVaultPreimage(p) ==
    [type |-> p.type, owner |-> p.owner, salt |-> p.salt, metadata |-> p.metadata]

CreateTeamVaultPreimage(p) ==
    [type |-> "team", owner |-> p.owner, salt |-> p.salt, metadata |-> p.metadata,
     initialAuthorized |-> p.initialAuthorized]

CreatePayload(type, owner, salt, metadata, initialAuthorized) ==
    [type |-> type, owner |-> owner, salt |-> salt, metadata |-> metadata,
     initialAuthorized |-> initialAuthorized]

TheSalt == "aabbccddeeff0011"
TheVaultId == buildVaultId("rA", TheSalt)

CreateVaultRequests(rounds) ==
    UNION {Variants("createVault", p, CreateVaultPreimage(p), rounds, {DefaultDeps}) :
             p \in UNION {{CreatePayload("individual", o, s, m, <<>>) :
                             m \in RawMetadatas(buildVaultId(o, s))} : o \in Owners, s \in Salts}}
    \cup UNION {Variants("createVault", p, CreateVaultPreimage(p), {DefaultRound}, SingleCallDeps \ {DefaultDeps}) :
             p \in {CreatePayload("individual", o, s, EmptyMetadata, <<>>) : o \in Owners, s \in Salts}}
    \cup UNION {Variants("createVault", p, CreateTeamVaultPreimage(p), {DefaultRound}, {DefaultDeps}) :
             p \in {CreatePayload("team", o, s, EmptyMetadata, <<>>) : o \in Owners, s \in Salts}}
    \cup Forgeries("createVault", CreatePayload("individual", "rA", TheSalt, EmptyMetadata, <<>>),
                   CreateVaultPreimage(CreatePayload("individual", "rA", TheSalt, EmptyMetadata, <<>>)))
    \cup {Plain("createVault", p, CreateVaultPreimage(p)) :
             p \in {CreatePayload("other", "rA", TheSalt, EmptyMetadata, <<>>),
                    CreatePayload("individual", BadAddress, TheSalt, EmptyMetadata, <<>>),
                    CreatePayload("individual", "rA", BadSalt, EmptyMetadata, <<>>)}
                   \cup {CreatePayload("individual", "rA", TheSalt, m, <<>>) : m \in BadRawMetadatas(TheVaultId)}}

CreateTeamVaultRequests(rounds) ==
    UNION {Variants("createTeamVault", p, CreateTeamVaultPreimage(p), rounds, {DefaultDeps}) :
             p \in UNION {{CreatePayload("team", o, s, EmptyMetadata, ia) :
                             ia \in InitialAuthorizedLists(o)} : o \in Owners, s \in Salts}}
    \cup Forgeries("createTeamVault", CreatePayload("team", "rA", TheSalt, EmptyMetadata, <<>>),
                   CreateTeamVaultPreimage(CreatePayload("team", "rA", TheSalt, EmptyMetadata, <<>>)))
    \cup {Plain("createTeamVault", p, CreateTeamVaultPreimage(p)) :
             p \in {CreatePayload("team", "rA", TheSalt, EmptyMetadata, <<BadAddress>>),
                    CreatePayload("team", "rA", TheSalt,
                                  [vaultId |-> "sha256(other)", passwordBackup |-> NoBackup], <<>>)}}

InvitePreimage(p) == [vaultId |-> p.vaultId, invitee |-> p.invitee, action |-> "inviteToVault"]

InviteRequests(rounds) ==
    UNION {Variants("inviteToVault", p, InvitePreimage(p), rounds, {DefaultDeps}) :
             p \in {[vaultId |-> v, invitee |-> a] : v \in VaultIds, a \in Addresses}}
    \cup UNION {Forgeries("inviteToVault", p, InvitePreimage(p)) :
                  p \in {[vaultId |-> v, invitee |-> "rB"] : v \in VaultIds}}
    \cup {Plain("inviteToVault", p, InvitePreimage(p)) :
             p \in {[vaultId |-> ShortVaultId, invitee |-> "rB"], [vaultId |-> TheVaultId, invitee |-> BadAddress]}}

AcceptInvitePreimage(p) == [vaultId |-> p.vaultId, action |-> "acceptInvite"]

AcceptInviteRequests(rounds) ==
    UNION {Variants("acceptInvite", p, AcceptInvitePreimage(p), rounds, {DefaultDeps})
           \cup Forgeries("acceptInvite", p, AcceptInvitePreimage(p)) :
             p \in {[vaultId |-> v] : v \in VaultIds}}
    \cup {Plain("acceptInvite", [vaultId |-> ShortVaultId], AcceptInvitePreimage([vaultId |-> ShortVaultId]))}

RevokeInvitePreimage(p) ==
    [vaultId |-> p.vaultId, pendingAddress |-> p.pendingAddress, action |-> "revokeInvite"]

RevokeInviteRequests(rounds) ==
    UNION {Variants("revokeInvite", p, RevokeInvitePreimage(p), rounds, {DefaultDeps}) :
             p \in {[vaultId |-> v, pendingAddress |-> a] : v \in VaultIds, a \in Addresses}}
    \cup UNION {Forgeries("revokeInvite", p, RevokeInvitePreimage(p)) :
                  p \in {[vaultId |-> v, pendingAddress |-> "rB"] : v \in VaultIds}}
    \cup {Plain("revokeInvite", p, RevokeInvitePreimage(p)) :
             p \in {[vaultId |-> ShortVaultId, pendingAddress |-> "rB"],
                    [vaultId |-> TheVaultId, pendingAddress |-> BadAddress]}}

RemoveMemberPreimage(p) ==
    [vaultId |-> p.vaultId, memberToRemove |-> p.memberToRemove, action |-> "removeMember"]

RemoveMemberRequests(rounds) ==
    UNION {Variants("removeMember", p, RemoveMemberPreimage(p), rounds, {DefaultDeps}) :
             p \in {[vaultId |-> v, memberToRemove |-> a] : v \in VaultIds, a \in Addresses}}
    \cup UNION {Forgeries("removeMember", p, RemoveMemberPreimage(p)) :
                  p \in {[vaultId |-> v, memberToRemove |-> "rB"] : v \in VaultIds}}
    \cup {Plain("removeMember", p, RemoveMemberPreimage(p)) :
             p \in {[vaultId |-> ShortVaultId, memberToRemove |-> "rB"],
                    [vaultId |-> TheVaultId, memberToRemove |-> BadAddress]}}

GetPendingInvitesPreimage(p) == [vaultId |-> p.vaultId, action |-> "getPendingInvites"]

GetPendingInvitesRequests ==
    UNION {Variants("getPendingInvites", p, GetPendingInvitesPreimage(p), {DefaultRound}, {DefaultDeps})
           \cup Forgeries("getPendingInvites", p, GetPendingInvitesPreimage(p)) :
             p \in {[vaultId |-> v] : v \in VaultIds}}
    \cup {Plain("getPendingInvites", [vaultId |-> ShortVaultId],
                GetPendingInvitesPreimage([vaultId |-> ShortVaultId]))}

UpdateVaultManifestPreimage(p) ==
    [vaultId |-> p.vaultId,
     newUri |-> IF p.newUri = Undefined THEN Null ELSE p.newUri,
     newBlobHex |-> IF p.newBlobHex = Undefined THEN Null ELSE p.newBlobHex,
     action |-> "updateVaultManifest"]

UpdateVaultManifestRequests(rounds) ==
    UNION {Variants("updateVaultManifest", p, UpdateVaultManifestPreimage(p), rounds, {DefaultDeps}) :
             p \in {[vaultId |-> v, newUri |-> u, newBlobHex |-> b] :
                      v \in VaultIds, u \in NewUris \cup {Undefined}, b \in HexBlobs \cup {Undefined}}}
    \cup UNION {Variants("updateVaultManifest", p, UpdateVaultManifestPreimage(p), {DefaultRound},
                         Deps \ {DefaultDeps})
                \cup Forgeries("updateVaultManifest", p, UpdateVaultManifestPreimage(p)) :
             p \in {[vaultId |-> v, newUri |-> u, newBlobHex |-> Undefined] : v \in VaultIds, u \in NewUris}}
    \cup {Plain("updateVaultManifest", p, UpdateVaultManifestPreimage(p)) :
             p \in {[vaultId |-> ShortVaultId, newUri |-> "ipfs://policy-2", newBlobHex |-> Undefined],
                    [vaultId |-> TheVaultId, newUri |-> ShortUri, newBlobHex |-> Undefined],
                    [vaultId |-> TheVaultId, newUri |-> Undefined, newBlobHex |-> BadHexBlob]}}

ListVaultURITokensPreimage(p) == [vaultId |-> p.vaultId, action |-> "listVaultURITokens"]

ListVaultURITokensRequests ==
    UNION {Variants("listVaultURITokens", p, ListVaultURITokensPreimage(p), {DefaultRound}, {DefaultDeps})
           \cup Forgeries("listVaultURITokens", p, ListVaultURITokensPreimage(p)) :
             p \in {[vaultId |-> v] : v \in VaultIds}}
    \cup {Plain("listVaultURITokens", [vaultId |-> ShortVaultId],
                ListVaultURITokensPreimage([vaultId |-> ShortVaultId]))}

RevokeVaultPreimage(p) == [vaultId |-> p.vaultId, confirm |-> p.confirm, action |-> "revokeVault"]

RevokeVaultRequests(rounds) ==
    UNION {Variants("revokeVault", p, RevokeVaultPreimage(p), rounds, {DefaultDeps}) :
             p \in {[vaultId |-> v, confirm |-> c] : v \in VaultIds, c \in BOOLEAN}}
    \cup UNION {Variants("revokeVault", p, RevokeVaultPreimage(p), {DefaultRound}, Deps \ {DefaultDeps})
                \cup Forgeries("revokeVault", p, RevokeVaultPreimage(p)) :
                  p \in {[vaultId |-> v, confirm |-> TRUE] : v \in VaultIds}}
    \cup {Plain("revokeVault", [vaultId |-> ShortVaultId, confirm |-> TRUE],
                RevokeVaultPreimage([vaultId |-> ShortVaultId, confirm |-> TRUE]))}

EntryMetadatas == {[service |-> "github", username |-> "mike", notes |-> Undefined]}

WrappedKeyLists == {<<>>, <<[address |-> "rB", encryptedKey |-> "Y2lwaGVy"]>>}

AddEntryPreimage(p) ==
    [vaultId |-> p.vaultId, actor |-> p.actor, encryptedBlob |-> p.encryptedBlob, cid |-> p.cid,
     entryMetadata |-> p.entryMetadata, wrappedKeys |-> p.wrappedKeys]

AddEntryPayload(vaultId, actor, encryptedBlob, cid, entryMetadata, wrappedKeys) ==
    [vaultId |-> vaultId, actor |-> actor, encryptedBlob |-> encryptedBlob, cid |-> cid,
     entryMetadata |-> entryMetadata, wrappedKeys |-> wrappedKeys]

AddEntryRequests(rounds) ==
    UNION {Variants("addEntry", p, AddEntryPreimage(p), rounds, {DefaultDeps}) :
             p \in {AddEntryPayload(v, a, "Y2lwaGVy", c, m, w) :
                      v \in VaultIds, a \in Addresses, c \in Cids, m \in EntryMetadatas,
                      w \in WrappedKeyLists}}
    \cup UNION {Variants("addEntry", p, AddEntryPreimage(p), {DefaultRound}, {d \in Deps : d.ledger = "fail"})
                \cup Forgeries("addEntry", p, AddEntryPreimage(p)) :
             p \in {AddEntryPayload(v, vaults[v].owner, "Y2lwaGVy", c, m, <<>>) :
                      v \in DOMAIN vaults, c \in Cids, m \in EntryMetadatas}}
    \cup {Plain("addEntry", p, AddEntryPreimage(p)) :
             p \in UNION {{AddEntryPayload(ShortVaultId, "rA", "Y2lwaGVy", c, m, <<>>),
                           AddEntryPayload(TheVaultId, BadAddress, "Y2lwaGVy", c, m, <<>>),
                           AddEntryPayload(TheVaultId, "rA", BadBase64, c, m, <<>>),
                           AddEntryPayload(TheVaultId, "rA", "Y2lwaGVy", BadCid, m, <<>>),
                           AddEntryPayload(TheVaultId, "rA", "Y2lwaGVy", c, [m EXCEPT !.service = ""], <<>>),
                           AddEntryPayload(TheVaultId, "rA", "Y2lwaGVy", c, m,
                                           <<[address |-> BadAddress, encryptedKey |-> "Y2lwaGVy"]>>),
                           AddEntryPayload(TheVaultId, "rA", "Y2lwaGVy", c, m,
                                           <<[address |-> "rB", encryptedKey |-> BadBase64]>>)} :
                          c \in Cids, m \in EntryMetadatas}}

GetEntryPreimage(p) ==
    [vaultId |-> p.vaultId, actor |-> p.actor, hasIndex |-> p.hasIndex,
     entryIndex |-> IF p.hasIndex THEN p.entryIndex ELSE 0,
     tokenId |-> IF p.hasTokenId THEN p.tokenId ELSE Null]

GetEntryPayload(vaultId, actor, hasIndex, entryIndex, hasTokenId, tokenId) ==
    [vaultId |-> vaultId, actor |-> actor, hasIndex |-> hasIndex, entryIndex |-> entryIndex,
     hasTokenId |-> hasTokenId, tokenId |-> tokenId]

\* The token ids a request may name: those of the stored entries and one of no entry.
KnownTokenIds ==
    {"no-such-token"}
    \cup UNION {{vaults[v].entries[i].tokenId : i \in 1..Len(vaults[v].entries)} : v \in DOMAIN vaults}

GetEntryRequests ==
    UNION {Variants("getEntry", p, GetEntryPreimage(p), {DefaultRound}, {DefaultDeps}) :
             p \in {GetEntryPayload(v, a, TRUE, i, FALSE, Undefined) :
                      v \in VaultIds, a \in Addresses, i \in 0..MaxEntries}
                   \cup {GetEntryPayload(v, a, FALSE, 0, TRUE, t) :
                           v \in VaultIds, a \in Addresses, t \in KnownTokenIds \ {Null}}}
    \cup UNION {Forgeries("getEntry", p, GetEntryPreimage(p)) :
                  p \in {GetEntryPayload(v, a, TRUE, 0, FALSE, Undefined) : v \in VaultIds, a \in Addresses}}
    \cup {Plain("getEntry", p, GetEntryPreimage(p)) :
             p \in {GetEntryPayload(ShortVaultId, "rA", TRUE, 0, FALSE, Undefined),
                    GetEntryPayload(TheVaultId, BadAddress, TRUE, 0, FALSE, Undefined),
                    GetEntryPayload(TheVaultId, "rA", FALSE, 0, FALSE, Undefined)}
                   \cup {GetEntryPayload(TheVaultId, "rA", TRUE, i, TRUE, t) :
                           i \in 0..MaxEntries, t \in KnownTokenIds \ {Null}}}

GetMyVaultsRequests ==
    {Req("getMyVaults", [owner |-> o, since |-> since], DefaultRound, DefaultDeps) :
       o \in Addresses \cup {BadAddress}, since \in {Null} \cup RoundKeys}

StateDigestRequests == {Req("stateDigest", NoData, DefaultRound, DefaultDeps)}

AddPasswordBackupPreimage(p) ==
    [vaultId |-> p.vaultId, actor |-> p.actor, action |-> "addPasswordBackup",
     passwordBackup |-> p.passwordBackup]

AddPasswordBackupRequests(rounds) ==
    UNION {Variants("addPasswordBackup", p, AddPasswordBackupPreimage(p), rounds, {DefaultDeps}) :
             p \in {[vaultId |-> v, actor |-> a, passwordBackup |-> Envelope(v)] :
                      v \in VaultIds, a \in Addresses}}
    \cup UNION {Forgeries("addPasswordBackup", p, AddPasswordBackupPreimage(p)) :
                  p \in {[vaultId |-> v, actor |-> vaults[v].owner, passwordBackup |-> Envelope(v)] :
                           v \in DOMAIN vaults}}
    \cup {Plain("addPasswordBackup", p, AddPasswordBackupPreimage(p)) :
             p \in {[vaultId |-> ShortVaultId, actor |-> "rA", passwordBackup |-> Envelope(ShortVaultId)],
                    [vaultId |-> TheVaultId, actor |-> BadAddress, passwordBackup |-> Envelope(TheVaultId)],
                    [vaultId |-> TheVaultId, actor |-> "rA", passwordBackup |-> Envelope("sha256(other)")]}}

RemovePasswordBackupPreimage(p) ==
    [vaultId |-> p.vaultId, actor |-> p.actor, action |-> "removePasswordBackup"]

RemovePasswordBackupRequests(rounds) ==
    UNION {Variants("removePasswordBackup", p, RemovePasswordBackupPreimage(p), rounds, {DefaultDeps}) :
             p \in {[vaultId |-> v, actor |-> a] : v \in VaultIds, a \in Addresses}}
    \cup UNION {Forgeries("removePasswordBackup", p, RemovePasswordBackupPreimage(p)) :
                  p \in {[vaultId |-> v, actor |-> vaults[v].owner] : v \in DOMAIN vaults}}
    \cup {Plain("removePasswordBackup", p, RemovePasswordBackupPreimage(p)) :
             p \in {[vaultId |-> ShortVaultId, actor |-> "rA"], [vaultId |-> TheVaultId, actor |-> BadAddress]}}

GetVaultMetadataPreimage(p) == [vaultId |-> p.vaultId, actor |-> p.actor, action |-> "getVaultMetadata"]

GetVaultMetadataRequests ==
    UNION {Variants("getVaultMetadata", p, GetVaultMetadataPreimage(p), {DefaultRound}, {DefaultDeps}) :
             p \in {[vaultId |-> v, actor |-> a] : v \in VaultIds, a \in Addresses}}
    \cup UNION {Forgeries("getVaultMetadata", p, GetVaultMetadataPreimage(p)) :
                  p \in {[vaultId |-> v, actor |-> vaults[v].owner] : v \in DOMAIN vaults}}
    \cup {Plain("getVaultMetadata", p, GetVaultMetadataPreimage(p)) :
             p \in {[vaultId |-> ShortVaultId, actor |-> "rA"], [vaultId |-> TheVaultId, actor |-> BadAddress]}}

UnknownRequests == {Req("noSuchOperation", NoData, DefaultRound, DefaultDeps)}

MutatingRequests(rounds) ==
    CreateVaultRequests(rounds) \cup CreateTeamVaultRequests(rounds) \cup InviteRequests(rounds)
    \cup AcceptInviteRequests(rounds) \cup RemoveMemberRequests(rounds) \cup RevokeInviteRequests(rounds)
    \cup UpdateVaultManifestRequests(rounds) \cup RevokeVaultRequests(rounds) \cup AddEntryRequests(rounds)
    \cup AddPasswordBackupRequests(rounds) \cup RemovePasswordBackupRequests(rounds)

\* handleOperation: the outcome of one request in the current state.
handleOperation(req) ==
    LET roundKey == resolveRoundKey(req.round.ctx, req.round.op)
        payload == req.payload
        deps == req.deps
    IN CASE req.type = "createVault" -> createVaultHandler(payload, deps, roundKey)
         [] req.type = "createTeamVault" -> createTeamVaultHandler(payload, deps, roundKey)
         [] req.type = "inviteToVault" -> inviteToVaultHandler(payload, roundKey)
         [] req.type = "acceptInvite" -> acceptInviteHandler(payload, roundKey)
         [] req.type = "removeMember" -> removeMemberHandler(payload, roundKey)
         [] req.type = "revokeInvite" -> revokeInviteHandler(payload, roundKey)
         [] req.type = "updateVaultManifest" -> updateVaultManifestHandler(payload, deps, roundKey)
         [] req.type = "listVaultURITokens" -> listVaultURITokensHandler(payload)
         [] req.type = "revokeVault" -> revokeVaultHandler(payload, deps, roundKey)
         [] req.type = "getPendingInvites" -> getPendingInvitesHandler(payload)
         [] req.type = "addEntry" -> addEntryHandler(payload, deps, roundKey)
         [] req.type = "getMyVaults" -> getMyVaultsHandler(payload)
         [] req.type = "getEntry" -> getEntryHandler(payload)
         [] req.type = "stateDigest" -> stateDigestHandler
         [] req.type = "addPasswordBackup" -> addPasswordBackupHandler(payload, roundKey)
         [] req.type = "removePasswordBackup" -> removePasswordBackupHandler(payload, roundKey)
         [] req.type = "getVaultMetadata" -> getVaultMetadataHandler(payload)
         [] OTHER -> Reject("UNKNOWN_OPERATION")

(***************************************************************************)
(* The state machine: runContract takes one request at a time to           *)
(* completion.                                                             *)
(***************************************************************************)
Configs == [teamMode : BOOLEAN, mutableUriTokens : BOOLEAN, devFallback : BOOLEAN]

NoneServed == [a \in Addresses |-> 0]

\* The contract process after the module is loaded: empty store, fresh limiter.
InitStore ==
    /\ vaults = [v \in {} |-> 0]
    /\ stateFile = vaults
    /\ limiter = [roundKey |-> NoRound, perAddress |-> EmptyMap]
    /\ cfg \in Configs
    /\ served = [round |-> NoRound, count |-> NoneServed]
    /\ revocations = {}
    /\ removals = {}
    /\ commits = 0
    /\ streak = 0

\* createHotPocketTransport: `ws = null`, `queue = Promise.resolve()`.
NoSocket == [id |-> 0, state |-> "none"]
NewTransport ==
    /\ calls = <<>>
    /\ ws = NoSocket
    /\ wire = <<>>

\* bootstrapHotPocketRuntime before runContract takes its first request.
Idle ==
    /\ NewTransport
    /\ position = 1
    /\ cursor = 0
    /\ outputs = <<>>
    /\ audit = <<>>
    /\ halted = FALSE

\* handleOperation called by a caller of its own: no round of the runtime.
Init ==
    /\ InitStore
    /\ queue = <<>>
    /\ Idle

\* The bound of the model: at most MaxEntries entries per vault.
WithinBounds(vs) == \A v \in DOMAIN vs : Len(vs[v].entries) <= MaxEntries

\* What a response tells of the request: it reached the rate limiter, it was let
\* through, it committed.
Reached(out) == out.limited # ""
LetThrough(out) == Reached(out) /\ out.code # "RATE_LIMIT_EXCEEDED"
Committed(out) == Reached(out) /\ out.code = "OK"

\* History: the requests the limiter let through, per address, since the round key
\* of the rate-limited requests last changed.
Served(req, out) ==
    IF ~Reached(out) THEN served
    ELSE LET base == IF served.round = RoundKeyOf(req) THEN served.count ELSE NoneServed
         IN [round |-> RoundKeyOf(req),
             count |-> IF LetThrough(out) THEN [base EXCEPT ![out.limited] = @ + 1] ELSE base]

\* History: a committed revokeVault adds its vault (with its owner), a committed
\* createVault or createTeamVault takes the vault it creates away.
Revoked(req, out) ==
    IF ~Committed(out) THEN revocations
    ELSE IF req.type = "revokeVault"
    THEN revocations \cup {[vaultId |-> req.payload.vaultId, owner |-> vaults[req.payload.vaultId].owner]}
    ELSE IF req.type \in {"createVault", "createTeamVault"}
    THEN {r \in revocations : r.vaultId # out.data.vaultId}
    ELSE revocations

\* History: a committed removeMember adds the member it removed from the vault, a
\* committed acceptInvite takes the accepting address away, a committed
\* revokeVault takes every member of the vault it deleted away.
Removed(req, out) ==
    IF ~Committed(out) THEN removals
    ELSE IF req.type = "removeMember"
    THEN removals \cup {[vaultId |-> req.payload.vaultId, member |-> req.payload.memberToRemove]}
    ELSE IF req.type = "acceptInvite"
    THEN removals \ {[vaultId |-> req.payload.vaultId, member |-> out.limited]}
    ELSE IF req.type = "revokeVault"
    THEN {r \in removals : r.vaultId # req.payload.vaultId}
    ELSE removals

\* The handlers that call persistState, without updateVaultManifestHandler.
PersistingButManifest ==
    {"createVault", "createTeamVault", "inviteToVault", "acceptInvite", "removeMember", "revokeInvite",
     "revokeVault", "addEntry", "addPasswordBackup", "removePasswordBackup"}

\* stateStore.js loadStateFromFs: the store a process started on `file` holds.
\* Every value of a vault is a string, a number, null, an array or an object,
\* which JSON.parse gives back as JSON.stringify took it.
loadStateFromFs(file) == [vaults |-> file]

\* The operations whose handlers call persistState, as their last step before
\* they return.
Persisting ==
    {"createVault", "createTeamVault", "inviteToVault", "acceptInvite", "removeMember", "revokeInvite",
     "updateVaultManifest", "revokeVault", "addEntry", "addPasswordBackup", "removePasswordBackup"}

\* What mkdirSync and writeFileSync can do when saveStateToFs calls them.
FsWrites == {"written", "throws"}

\* saveStateToFs: the file holds the snapshot, or the write threw and the file is
\* as it was.
saveStateToFs(file, snapshot, fsWrite) ==
    IF fsWrite = "written" THEN [code |-> "OK", file |-> snapshot]
    ELSE [code |-> "UNEXPECTED_ERROR", file |-> file]

\* runContract around one request: the code of the response, the vaults in memory
\* and the state file once the request is over.  The handler mutates the store,
\* then calls persistState, then returns; an error thrown by the write is caught
\* by runContract like any other and nothing undoes the mutation.
Response(req, fsWrite) ==
    LET out == handleOperation(req)
        saved == saveStateToFs(stateFile, out.vaults, fsWrite)
    IN IF out.code = "OK" /\ req.type \in Persisting
       THEN [code |-> saved.code, vaults |-> out.vaults, stateFile |-> saved.file]
       ELSE [code |-> out.code, vaults |-> out.vaults, stateFile |-> stateFile]

\* persistState: the state file after a request whose writes succeed; a handler
\* that returns saved the snapshot of the vaults, a handler that threw had not
\* reached the save.
persistState(req, out) ==
    IF out.code = "OK" /\ req.type \in Persisting
    THEN saveStateToFs(stateFile, out.vaults, "written").file
    ELSE stateFile

\* The state a request leaves behind.
Apply(req, out) ==
    /\ vaults' = out.vaults
    /\ stateFile' = persistState(req, out)
    /\ limiter' = out.limiter
    /\ served' = Served(req, out)
    /\ revocations' = Revoked(req, out)
    /\ removals' = Removed(req, out)
    /\ UNCHANGED <<cfg, commits, streak>>
    /\ UNCHANGED <<runtime, transport>>

CreateVault ==
    \E req \in CreateVaultRequests(OneRound) :
        LET out == handleOperation(req) IN
        /\ WithinBounds(out.vaults)
        /\ Apply(req, out)

CreateTeamVault ==
    \E req \in CreateTeamVaultRequests(OneRound) :
        LET out == handleOperation(req) IN
        /\ WithinBounds(out.vaults)
        /\ Apply(req, out)

InviteToVault ==
    \E req \in InviteRequests(OneRound) :
        LET out == handleOperation(req) IN
        /\ WithinBounds(out.vaults)
        /\ Apply(req, out)

AcceptInvite ==
    \E req \in AcceptInviteRequests(OneRound) :
        LET out == handleOperation(req) IN
        /\ WithinBounds(out.vaults)
        /\ Apply(req, out)

RemoveMember ==
    \E req \in RemoveMemberRequests(OneRound) :
        LET out == handleOperation(req) IN
        /\ WithinBounds(out.vaults)
        /\ Apply(req, out)

RevokeInvite ==
    \E req \in RevokeInviteRequests(OneRound) :
        LET out == handleOperation(req) IN
        /\ WithinBounds(out.vaults)
        /\ Apply(req, out)

UpdateVaultManifest ==
    \E req \in UpdateVaultManifestRequests(OneRound) :
        LET out == handleOperation(req) IN
        /\ WithinBounds(out.vaults)
        /\ Apply(req, out)

ListVaultURITokens ==
    \E req \in ListVaultURITokensRequests :
        LET out == handleOperation(req) IN
        /\ WithinBounds(out.vaults)
        /\ Apply(req, out)

RevokeVault ==
    \E req \in RevokeVaultRequests(OneRound) :
        LET out == handleOperation(req) IN
        /\ WithinBounds(out.vaults)
        /\ Apply(req, out)

GetPendingInvites ==
    \E req \in GetPendingInvitesRequests :
        LET out == handleOperation(req) IN
        /\ WithinBounds(out.vaults)
        /\ Apply(req, out)

AddEntry ==
    \E req \in AddEntryRequests(OneRound) :
        LET out == handleOperation(req) IN
        /\ WithinBounds(out.vaults)
        /\ Apply(req, out)

GetMyVaults ==
    \E req \in GetMyVaultsRequests :
        LET out == handleOperation(req) IN
        /\ WithinBounds(out.vaults)
        /\ Apply(req, out)

GetEntry ==
    \E req \in GetEntryRequests :
        LET out == handleOperation(req) IN
        /\ WithinBounds(out.vaults)
        /\ Apply(req, out)

StateDigest ==
    \E req \in StateDigestRequests :
        LET out == handleOperation(req) IN
        /\ WithinBounds(out.vaults)
        /\ Apply(req, out)

AddPasswordBackup ==
    \E req \in AddPasswordBackupRequests(OneRound) :
        LET out == handleOperation(req) IN
        /\ WithinBounds(out.vaults)
        /\ Apply(req, out)

RemovePasswordBackup ==
    \E req \in RemovePasswordBackupRequests(OneRound) :
        LET out == handleOperation(req) IN
        /\ WithinBounds(out.vaults)
        /\ Apply(req, out)

GetVaultMetadata ==
    \E req \in GetVaultMetadataRequests :
        LET out == handleOperation(req) IN
        /\ WithinBounds(out.vaults)
        /\ Apply(req, out)

UnknownOperation ==
    \E req \in UnknownRequests :
        LET out == handleOperation(req) IN
        /\ WithinBounds(out.vaults)
        /\ Apply(req, out)

Next ==
    \/ CreateVault
    \/ CreateTeamVault
    \/ InviteToVault
    \/ AcceptInvite
    \/ RemoveMember
    \/ RevokeInvite
    \/ UpdateVaultManifest
    \/ ListVaultURITokens
    \/ RevokeVault
    \/ GetPendingInvites
    \/ AddEntry
    \/ GetMyVaults
    \/ GetEntry
    \/ StateDigest
    \/ AddPasswordBackup
    \/ RemovePasswordBackup
    \/ GetVaultMetadata
    \/ UnknownOperation

\* A deployment with team mode on, the ledger fallback on (the default of
\* XVAULT_DEV_XRPL_FALLBACK) and immutable URI tokens.
InitTeam == Init /\ cfg = [teamMode |-> TRUE, mutableUriTokens |-> FALSE, devFallback |-> TRUE]

Spec == InitTeam /\ [][Next]_vars

\* The same contract under every combination of the startup flags.
SpecAnyConfig == Init /\ [][Next]_vars

\* The deployments with team mode off (ENABLE_TEAM_MODE unset, the default),
\* under every combination of the other flags.
InitTeamOff == Init /\ ~cfg.teamMode

SpecTeamOff == InitTeamOff /\ [][Next]_vars

\* A team deployment with mutable URI tokens (ENABLE_MUTABLE_URITOKENS set).
InitMutable == Init /\ cfg = [teamMode |-> TRUE, mutableUriTokens |-> TRUE, devFallback |-> TRUE]

\* The operations that make and change team vaults and their manifests.
NextMutable ==
    \/ CreateTeamVault
    \/ InviteToVault
    \/ AcceptInvite
    \/ AddEntry
    \/ UpdateVaultManifest

SpecMutable == InitMutable /\ [][NextMutable]_vars

\* A team deployment started with ENABLE_XRPL_DEV_FALLBACK=false: a failed
\* ledger submission is an error.
InitNoFallback == Init /\ cfg = [teamMode |-> TRUE, mutableUriTokens |-> FALSE, devFallback |-> FALSE]

SpecNoFallback == InitNoFallback /\ [][Next]_vars

(***************************************************************************)
(* The same contract called with round keys that change from one call to   *)
(* the next (handleOperation takes the round key from its caller), with    *)
(* the history of one actor and one round key.                             *)
(***************************************************************************)
TrackedActor == "rA"
TrackedRound == "1"

\* The requests of the rate-limit runs: the vault of rA, simulated tokens.
Narrow(req) ==
    /\ req.deps = DefaultDeps
    /\ "vaultId" \in DOMAIN req.payload => req.payload.vaultId = TheVaultId
    /\ "owner" \in DOMAIN req.payload => req.payload.owner = "rA"
    /\ "metadata" \in DOMAIN req.payload => req.payload.metadata = EmptyMetadata
    /\ "type" \in DOMAIN req.payload => req.payload.type = "individual"

Track(req, out) ==
    LET mine == Committed(out) /\ out.limited = TrackedActor
        total == IF mine /\ RoundKeyOf(req) = TrackedRound THEN commits + 1 ELSE commits
    IN /\ total <= MaxCommits
       /\ vaults' = out.vaults
       /\ stateFile' = persistState(req, out)
       /\ limiter' = out.limiter
       /\ served' = Served(req, out)
       /\ revocations' = Revoked(req, out)
       /\ removals' = Removed(req, out)
       /\ commits' = total
       /\ streak' = IF ~Reached(out) THEN streak
                     ELSE IF served.round # RoundKeyOf(req) THEN (IF mine THEN 1 ELSE 0)
                     ELSE IF mine THEN streak + 1 ELSE streak
       /\ UNCHANGED cfg
       /\ UNCHANGED <<runtime, transport>>

RateCreateVault ==
    \E req \in {r \in CreateVaultRequests(AnyRound) : Narrow(r)} :
        LET out == handleOperation(req) IN
        /\ WithinBounds(out.vaults)
        /\ Track(req, out)

RateRevokeVault ==
    \E req \in {r \in RevokeVaultRequests(AnyRound) : Narrow(r)} :
        LET out == handleOperation(req) IN
        /\ WithinBounds(out.vaults)
        /\ Track(req, out)

RateAcceptInvite ==
    \E req \in {r \in AcceptInviteRequests(AnyRound) : Narrow(r)} :
        LET out == handleOperation(req) IN
        /\ WithinBounds(out.vaults)
        /\ Track(req, out)

RateAddPasswordBackup ==
    \E req \in {r \in AddPasswordBackupRequests(AnyRound) : Narrow(r)} :
        LET out == handleOperation(req) IN
        /\ WithinBounds(out.vaults)
        /\ Track(req, out)

NextRate ==
    \/ RateCreateVault
    \/ RateRevokeVault
    \/ RateAcceptInvite
    \/ RateAddPasswordBackup

SpecRate == InitTeam /\ [][NextRate]_vars

(***************************************************************************)
(* createVault and addEntry called with round keys that change from one    *)
(* call to the next: resolveRoundKey takes the key from the runtime        *)
(* context when it has one and from the request (op.round, op.roundKey)    *)
(* otherwise.                                                              *)
(***************************************************************************)
RoundsCreateVault ==
    \E req \in {r \in CreateVaultRequests(AnyRound) : Narrow(r)} :
        LET out == handleOperation(req) IN
        /\ WithinBounds(out.vaults)
        /\ Apply(req, out)

RoundsAddEntry ==
    \E req \in {r \in AddEntryRequests(AnyRound) : Narrow(r)} :
        LET out == handleOperation(req) IN
        /\ WithinBounds(out.vaults)
        /\ Apply(req, out)

NextRounds ==
    \/ RoundsCreateVault
    \/ RoundsAddEntry

SpecRounds == InitTeam /\ [][NextRounds]_vars

(***************************************************************************)
(* One owner with two vaults, created under either salt and under round    *)
(* keys in any order, as an individual vault or as a team vault with a     *)
(* member, and the listings of owner and member.                           *)
(***************************************************************************)
ListingCreations ==
    UNION {Variants("createVault", p, CreateVaultPreimage(p), AnyRound, {DefaultDeps}) :
             p \in {CreatePayload("individual", "rA", salt, EmptyMetadata, <<>>) :
                      salt \in Salts \cup {OtherSalt}}}
    \cup UNION {Variants("createTeamVault", p, CreateTeamVaultPreimage(p), AnyRound, {DefaultDeps}) :
             p \in {CreatePayload("team", "rA", salt, EmptyMetadata, <<"rB">>) :
                      salt \in Salts \cup {OtherSalt}}}

ListingCreateVault ==
    \E req \in ListingCreations :
        LET out == handleOperation(req) IN
        /\ WithinBounds(out.vaults)
        /\ Apply(req, out)

ListingRevokeVault ==
    \E req \in {r \in RevokeVaultRequests(OneRound) : r.deps = DefaultDeps} :
        LET out == handleOperation(req) IN
        /\ WithinBounds(out.vaults)
        /\ Apply(req, out)

ListingGetMyVaults ==
    \E req \in GetMyVaultsRequests :
        LET out == handleOperation(req) IN
        /\ WithinBounds(out.vaults)
        /\ Apply(req, out)

NextListing ==
    \/ ListingCreateVault
    \/ ListingRevokeVault
    \/ ListingGetMyVaults

SpecListing == InitTeam /\ [][NextListing]_vars

(***************************************************************************)
(* One round of the runtime: bootstrapHotPocketRuntime collects the inputs *)
(* of the users into `queue` and runContract takes the requests that the   *)
(* iterator yields, one at a time, answering through `respond`.            *)
(***************************************************************************)
MaxInputs == 3

\* The users of a round, in the order of Object.entries(hpargs.users), and the
\* output descriptor of each (records[0]).
Users == <<"u1", "u2">>
OutFd(user) == IF user = "u1" THEN 11 ELSE 12

\* An input that JSON.parse rejects (request = null) or that parses to a value
\* that is not an object.
NotAnObject == [parsed |-> "not-an-object"]

\* The inputs of the users: a createVault of rA, a listing, a digest, an
\* operation that does not exist, and an input that is no object.
RoundRequests ==
    Variants("createVault", CreatePayload("individual", "rA", TheSalt, EmptyMetadata, <<>>),
             CreateVaultPreimage(CreatePayload("individual", "rA", TheSalt, EmptyMetadata, <<>>)),
             {DefaultRound}, {DefaultDeps})
    \cup {Req("getMyVaults", [owner |-> "rA", since |-> Null], DefaultRound, DefaultDeps)}
    \cup StateDigestRequests
    \cup UnknownRequests
    \cup {NotAnObject}

\* collectUserRequests: one item per input, the inputs of one user together,
\* the users in the order of hpargs.users.
Queues ==
    {q \in UNION {[1..n -> [publicKey : {Users[1], Users[2]}, request : RoundRequests]] : n \in 0..MaxInputs} :
        \A i, j \in DOMAIN q : (i < j /\ q[i].publicKey = Users[2]) => q[j].publicKey = Users[2]}

collectUserRequests(q) ==
    [i \in DOMAIN q |-> [publicKey |-> q[i].publicKey, outFd |-> OutFd(q[i].publicKey), request |-> q[i].request]]

\* What fs.writev can do when sendUserOutput calls it.
Deliveries == {"delivered", "throws"}

\* index.js success
success(operation, data) == [ok |-> TRUE, operation |-> operation, data |-> data]

\* The message of an error, which the model does not spell out, and the
\* errorId runContract derives from code and message.
MessageOf(code) == "message of " \o code
ErrorId(code) == "sha256(" \o code \o ":" \o MessageOf(code) \o ")"

\* runContract: {...toErrorResponse(safeError), errorId}
toErrorResponse(code) == [ok |-> FALSE, error |-> MessageOf(code), code |-> code, errorId |-> ErrorId(code)]

\* The event a handler logs with auditLog just before it returns; NoEvent for
\* the handlers that never call auditLog.
NoEvent == "none"
AuditEvent(type, payload, data) ==
    CASE type = "createVault" /\ payload.type = "team" -> "createTeamVault"
      [] type = "createVault" /\ payload.type # "team" -> "createVault"
      [] type = "createTeamVault" -> "createTeamVault"
      [] type = "inviteToVault" -> "invite_sent"
      [] type = "acceptInvite" -> "invite_accepted"
      [] type = "removeMember" -> "member_removed"
      [] type = "revokeInvite" -> "invite_revoked"
      [] type = "updateVaultManifest" /\ data.mode = "mutable_stub" -> "manifest_updated"
      [] type = "updateVaultManifest" /\ data.mode # "mutable_stub" -> "manifest_rotated"
      [] type = "revokeVault" -> "vault_revoked"
      [] type = "addEntry" -> "addEntry"
      [] type = "getEntry" -> "getEntry"
      [] type = "addPasswordBackup" -> "password_backup_added"
      [] type = "removePasswordBackup" -> "password_backup_removed"
      [] OTHER -> NoEvent

\* index.js auditLog: the log with one more record.
auditLog(log, event, ok, item) == Append(log, [event |-> event, success |-> ok, item |-> item])

\* The respond callback of the bootstrap with `made` calls made before and
\* `sent` written before: the target is queue[cursor], the cursor moves on, and
\* nothing is written when there is no target.
respond(made, sent, payload, delivery, item) ==
    IF made + 1 > Len(queue)
    THEN [cursor |-> made + 1, outputs |-> sent, thrown |-> FALSE]
    ELSE IF delivery = "throws"
    THEN [cursor |-> made + 1, outputs |-> sent, thrown |-> TRUE]
    ELSE [cursor |-> made + 1,
          outputs |-> Append(sent, [outFd |-> queue[made + 1].outFd, payload |-> payload, item |-> item]),
          thrown |-> FALSE]

\* The iterator of the bootstrap passes over an item whose request is no object.
SkipInput ==
    /\ ~halted
    /\ position <= Len(queue)
    /\ queue[position].request = NotAnObject
    /\ position' = position + 1
    /\ UNCHANGED <<vaults, stateFile, limiter, cfg, served, revocations, removals, commits, streak>>
    /\ UNCHANGED <<queue, cursor, outputs, audit, halted, transport>>

\* One turn of the loop of runContract: handleOperation and respond in the try
\* block, auditLog and respond in the catch block.
RunContract ==
    /\ ~halted
    /\ position <= Len(queue)
    /\ queue[position].request # NotAnObject
    /\ \E fsWrite \in FsWrites, first \in Deliveries, second \in Deliveries,
          out \in {handleOperation(queue[position].request)} :
          LET req == queue[position].request
              persisting == out.code = "OK" /\ req.type \in Persisting
              saved == saveStateToFs(stateFile, out.vaults, fsWrite)
              code == IF persisting THEN saved.code ELSE out.code
              event == IF code = "OK" THEN AuditEvent(req.type, req.payload, out.data) ELSE NoEvent
              logged == IF event # NoEvent THEN auditLog(audit, event, TRUE, position) ELSE audit
              tried == IF code = "OK"
                       THEN respond(cursor, outputs, success(req.type, out.data), first, position)
                       ELSE [cursor |-> cursor, outputs |-> outputs, thrown |-> TRUE]
              caught == IF code = "OK" THEN "UNEXPECTED_ERROR" ELSE code
              answered == respond(tried.cursor, tried.outputs, toErrorResponse(caught),
                                  IF code = "OK" THEN second ELSE first, position)
          IN /\ vaults' = out.vaults
             /\ stateFile' = IF persisting THEN saved.file ELSE stateFile
             /\ limiter' = out.limiter
             /\ served' = Served(req, out)
             /\ revocations' = Revoked(req, out)
             /\ removals' = Removed(req, out)
             /\ position' = position + 1
             /\ IF ~tried.thrown
                THEN /\ cursor' = tried.cursor
                     /\ outputs' = tried.outputs
                     /\ audit' = logged
                     /\ halted' = FALSE
                ELSE /\ cursor' = answered.cursor
                     /\ outputs' = answered.outputs
                     /\ audit' = auditLog(logged, "request_error", FALSE, position)
                     /\ halted' = answered.thrown
             /\ UNCHANGED <<cfg, commits, streak, queue, transport>>

NextRound ==
    \/ SkipInput
    \/ RunContract

\* A round of the default team deployment over every queue of up to MaxInputs
\* inputs.
InitRound ==
    /\ InitStore
    /\ cfg = [teamMode |-> TRUE, mutableUriTokens |-> FALSE, devFallback |-> TRUE]
    /\ queue \in {collectUserRequests(q) : q \in Queues}
    /\ Idle

SpecRound == InitRound /\ [][NextRound]_vars

(***************************************************************************)
(* Properties                                                              *)
(***************************************************************************)
\* The request carries a signature made over `preimage` by the key it declares,
\* and that key is the key of `address`.
ByKeyOf(req, address, preimage) ==
    /\ req.payload.signerPublicKey = req.payload.signature.by
    /\ req.payload.signature.over = preimage
    /\ deriveAddress(req.payload.signature.by) = address

\* The readers of a vault: the owner of an individual vault, the authorized
\* addresses of a team vault.
MayRead(vault, actor) ==
    IF vault.type = "team" THEN Contains(vault.authorized, actor) ELSE vault.owner = actor

\* C1: in every reachable state and for every getEntry request, the response
\* carries an entry only if the actor signed the request and is the owner of the
\* individual vault or, at that moment, in the authorized list of the team vault;
\* any other actor gets no entry data, and gets UNAUTHORIZED when the request is
\* well formed, signed by the actor and names an existing vault.
C1_EntryOnlyToReaders ==
    \A req \in GetEntryRequests :
        LET out == handleOperation(req)
            p == req.payload
            permitted == Has(vaults, p.vaultId) /\ MayRead(vaults[p.vaultId], p.actor)
        IN /\ out.code = "OK" => permitted /\ deriveAddress(p.signature.by) = p.actor
           /\ ~permitted => out.code # "OK" /\ out.data = NoData
           /\ ( /\ Has(vaults, p.vaultId) /\ ~permitted
                /\ p.hasIndex \/ p.hasTokenId
                /\ ByKeyOf(req, p.actor, GetEntryPreimage(p)) ) => out.code = "UNAUTHORIZED"

\* A team vault with an entry: its owner reads the entry, an address outside the
\* authorized list asks for it and gets UNAUTHORIZED.
C1_Witness ==
    \E v \in DOMAIN vaults :
        /\ vaults[v].type = "team" /\ Len(vaults[v].entries) > 0
        /\ \E req \in GetEntryRequests :
              /\ req.payload.vaultId = v /\ ~Contains(vaults[v].authorized, req.payload.actor)
              /\ handleOperation(req).code = "UNAUTHORIZED"
        /\ \E req \in GetEntryRequests :
              /\ req.payload.vaultId = v /\ req.payload.actor = vaults[v].owner
              /\ handleOperation(req).code = "OK"
              /\ handleOperation(req).data.cid = vaults[v].entries[1].cid

\* The signed operations: the mutating ones and the signed reads.
SignedRequests ==
    MutatingRequests(OneRound) \cup GetEntryRequests \cup GetPendingInvitesRequests
    \cup ListVaultURITokensRequests \cup GetVaultMetadataRequests

\* The address a signed operation is expected to come from.
ExpectedAddress(req) ==
    CASE req.type \in {"createVault", "createTeamVault"} -> req.payload.owner
      [] req.type \in {"addEntry", "getEntry"} -> req.payload.actor
      [] req.type = "acceptInvite" -> deriveAddress(req.payload.signerPublicKey)
      [] OTHER -> vaults[req.payload.vaultId].owner

\* The same request declaring the key `declared` and signed by the key `by`.
Resigned(req, declared, by) ==
    [req EXCEPT !.payload.signerPublicKey = declared, !.payload.signature.by = by]

\* C2: every signed operation that commits carries a signature made by the key it
\* declares, and the address derived from that key is the operation's expected
\* address; the same request with its signature made by any other key (that key
\* or the original one declared) fails with INVALID_SIGNATURE and leaves the
\* vaults unchanged.  (An acceptInvite that declares another key is the
\* acceptInvite of another signer, not the same request.)
C2_CommittedSignedByExpected ==
    \A req \in SignedRequests :
        LET out == handleOperation(req)
            p == req.payload
        IN out.code = "OK" =>
             /\ p.signerPublicKey = p.signature.by
             /\ deriveAddress(p.signature.by) = ExpectedAddress(req)
             /\ \A k \in Keys \ {p.signature.by} :
                   /\ handleOperation(Resigned(req, p.signerPublicKey, k)).code = "INVALID_SIGNATURE"
                   /\ handleOperation(Resigned(req, p.signerPublicKey, k)).vaults = vaults
                   /\ req.type # "acceptInvite" =>
                        /\ handleOperation(Resigned(req, k, k)).code = "INVALID_SIGNATURE"
                        /\ handleOperation(Resigned(req, k, k)).vaults = vaults

\* A team vault with rB among its authorized members: the owner's revokeVault
\* commits, the same revokeVault signed by rB's key fails with INVALID_SIGNATURE.
C2_Witness ==
    \E req \in RevokeVaultRequests(OneRound) :
        /\ Has(vaults, req.payload.vaultId)
        /\ Contains(vaults[req.payload.vaultId].authorized, "rB")
        /\ handleOperation(req).code = "OK"
        /\ ~Has(handleOperation(req).vaults, req.payload.vaultId)
        /\ handleOperation(Resigned(req, "kB", "kB")).code = "INVALID_SIGNATURE"

\* C3: in every reachable state the authorized list of every vault contains the
\* vault's owner; a removeMember that names the owner never commits and leaves
\* the vaults unchanged, and when it gets past the rate limiter it is rejected
\* with INVALID_OPERATION.
C3_OwnerStaysAuthorized ==
    /\ \A v \in DOMAIN vaults : Contains(vaults[v].authorized, vaults[v].owner)
    /\ \A req \in RemoveMemberRequests(OneRound) :
          LET out == handleOperation(req)
              p == req.payload
          IN (Has(vaults, p.vaultId) /\ p.memberToRemove = vaults[p.vaultId].owner) =>
               /\ out.code # "OK"
               /\ out.vaults = vaults
               /\ LetThrough(out) => out.code = "INVALID_OPERATION"

\* A team vault with a second member: the owner asks to remove the owner and gets
\* INVALID_OPERATION.
C3_Witness ==
    \E req \in RemoveMemberRequests(OneRound) :
        /\ Has(vaults, req.payload.vaultId)
        /\ Len(vaults[req.payload.vaultId].authorized) > 1
        /\ req.payload.memberToRemove = vaults[req.payload.vaultId].owner
        /\ handleOperation(req).code = "INVALID_OPERATION"

\* C4: in every reachable state and for every vault, no address is both in
\* authorized and in pendingInvites.
C4_InvitedOrAuthorized ==
    \A v \in DOMAIN vaults :
        \A a \in Addresses :
            ~(Contains(vaults[v].authorized, a) /\ Contains(InviteAddresses(vaults[v].pendingInvites), a))

\* An invited address accepts: it enters authorized and leaves pendingInvites.
C4_Witness ==
    \E req \in AcceptInviteRequests(OneRound) :
        LET out == handleOperation(req)
            v == req.payload.vaultId
            a == deriveAddress(req.payload.signerPublicKey)
        IN /\ Has(vaults, v)
           /\ Contains(InviteAddresses(vaults[v].pendingInvites), a)
           /\ out.code = "OK"
           /\ Contains(out.vaults[v].authorized, a)
           /\ ~Contains(InviteAddresses(out.vaults[v].pendingInvites), a)

NoDuplicates(seq) == \A i, j \in 1..Len(seq) : seq[i] = seq[j] => i = j

\* C5: in every reachable state and for every vault, the authorized list holds no
\* address twice and the pendingInvites list holds no address twice.
C5_NoDuplicateAddresses ==
    \A v \in DOMAIN vaults :
        /\ NoDuplicates(vaults[v].authorized)
        /\ NoDuplicates(InviteAddresses(vaults[v].pendingInvites))

\* A team vault with a pending invite: the owner invites the same address again,
\* the invite is refused with INVITE_ALREADY_EXISTS and the list keeps one invite.
C5_Witness ==
    \E req \in InviteRequests(OneRound) :
        LET out == handleOperation(req)
            v == req.payload.vaultId
        IN /\ Has(vaults, v)
           /\ Contains(InviteAddresses(vaults[v].pendingInvites), req.payload.invitee)
           /\ out.code = "INVITE_ALREADY_EXISTS"
           /\ Len(out.vaults[v].pendingInvites) = 1

\* C6: in every reachable state, every individual vault has authorized = [owner],
\* no pending invite, and no stored entry with wrapped keys.
C6_IndividualVaultShape ==
    \A v \in DOMAIN vaults :
        vaults[v].type = "individual" =>
            /\ vaults[v].authorized = <<vaults[v].owner>>
            /\ vaults[v].pendingInvites = <<>>
            /\ \A i \in 1..Len(vaults[v].entries) : vaults[v].entries[i].wrappedKeys = <<>>

\* C7: over any sequence of requests, at most OPS_PER_ROUND_LIMIT operations of
\* one actor commit under one round key, however the round key of consecutive
\* requests changes.
C7_AtMostFivePerRoundKey == commits <= OPS_PER_ROUND_LIMIT

\* What enforceRateLimit does bound (the C7 bound per run instead of per round
\* key): at most OPS_PER_ROUND_LIMIT operations of one actor commit in a run of
\* rate-limited requests that all carry the same round key; a rate-limited
\* request with another round key ends the run, also when the earlier round key
\* comes back afterwards.
AtMostFivePerRun == streak <= OPS_PER_ROUND_LIMIT

\* The actor has committed OPS_PER_ROUND_LIMIT operations in the current run, in
\* a round key that had been left and came back.
RoundKeyCameBack ==
    /\ streak = OPS_PER_ROUND_LIMIT
    /\ served.round = TrackedRound
    /\ commits > streak

\* C8: while the requests carry one round key, once OPS_PER_ROUND_LIMIT mutating
\* operations of an actor have been let through the limiter, every further
\* mutating operation charged to that actor fails with RATE_LIMIT_EXCEEDED and
\* leaves the vaults unchanged, and no operation charged to an actor still under
\* the limit fails with RATE_LIMIT_EXCEEDED.
C8_SixthIsRefused ==
    \A req \in MutatingRequests(OneRound) :
        LET out == handleOperation(req) IN
        (Reached(out) /\ RoundKeyOf(req) = served.round) =>
            IF served.count[out.limited] >= OPS_PER_ROUND_LIMIT
            THEN out.code = "RATE_LIMIT_EXCEEDED" /\ out.vaults = vaults
            ELSE out.code # "RATE_LIMIT_EXCEEDED"

\* rA has used the round up and is refused, rB is still served.
C8_Witness ==
    /\ served.count["rA"] = OPS_PER_ROUND_LIMIT
    /\ served.count["rB"] < OPS_PER_ROUND_LIMIT
    /\ \E req \in MutatingRequests(OneRound) :
          /\ handleOperation(req).limited = "rA"
          /\ handleOperation(req).code = "RATE_LIMIT_EXCEEDED"
    /\ \E req \in MutatingRequests(OneRound) :
          /\ handleOperation(req).limited = "rB"
          /\ handleOperation(req).code = "OK"

\* C9: the limiter holds the counters of one round key; a mutating operation
\* that reaches it with a round key other than the stored one is let through and
\* leaves the new round key stored with count 1 for the address it is charged to
\* and count 0 for every other address.
C9_NewRoundKeyDiscardsCounters ==
    \A req \in MutatingRequests(AnyRound) :
        LET out == handleOperation(req) IN
        (Reached(out) /\ RoundKeyOf(req) # limiter.roundKey) =>
            /\ LetThrough(out)
            /\ out.limiter.roundKey = RoundKeyOf(req)
            /\ \A a \in Addresses : CountOf(out.limiter, a) = IF a = out.limited THEN 1 ELSE 0

\* Both addresses have counters in the stored round key, and a request of rB
\* arrives with the other round key.
C9_Witness ==
    /\ limiter.roundKey \in RoundKeys
    /\ CountOf(limiter, "rA") > 1
    /\ CountOf(limiter, "rB") > 1
    /\ \E req \in MutatingRequests(AnyRound) :
          /\ RoundKeyOf(req) # limiter.roundKey
          /\ handleOperation(req).limited = "rB"
          /\ CountOf(handleOperation(req).limiter, "rA") = 0

\* C10: from a committed revokeVault(v) until a createVault or createTeamVault
\* creates v again, v is not stored, listVaultURITokens on v fails with
\* VAULT_NOT_FOUND, no getEntry on v returns an entry (a well-formed one signed by
\* its actor fails with VAULT_NOT_FOUND), and getMyVaults of the owner does not
\* list v.
C10_RevokedVaultIsGone ==
    \A r \in revocations :
        /\ ~Has(vaults, r.vaultId)
        /\ \A req \in ListVaultURITokensRequests :
              req.payload.vaultId = r.vaultId => handleOperation(req).code = "VAULT_NOT_FOUND"
        /\ \A req \in GetEntryRequests :
              req.payload.vaultId = r.vaultId =>
                  /\ handleOperation(req).code # "OK"
                  /\ ( /\ req.payload.hasIndex \/ req.payload.hasTokenId
                       /\ ByKeyOf(req, req.payload.actor, GetEntryPreimage(req.payload)) )
                     => handleOperation(req).code = "VAULT_NOT_FOUND"
        /\ \A req \in GetMyVaultsRequests :
              (req.payload.owner = r.owner /\ handleOperation(req).code = "OK") =>
                  \A i \in 1..Len(handleOperation(req).data) :
                      handleOperation(req).data[i].vaultId # r.vaultId

\* A vault has been revoked: its owner's signed listVaultURITokens and getEntry
\* both fail with VAULT_NOT_FOUND.
C10_Witness ==
    \E r \in revocations :
        /\ \E req \in ListVaultURITokensRequests :
              /\ req.payload.vaultId = r.vaultId
              /\ ByKeyOf(req, r.owner, ListVaultURITokensPreimage(req.payload))
              /\ handleOperation(req).code = "VAULT_NOT_FOUND"
        /\ \E req \in GetEntryRequests :
              /\ req.payload.vaultId = r.vaultId
              /\ ByKeyOf(req, r.owner, GetEntryPreimage(req.payload))
              /\ handleOperation(req).code = "VAULT_NOT_FOUND"

\* C11: revokeVault of a team vault without confirm = true never commits, burns
\* no token and leaves the vaults as they are, and is refused with
\* CONFIRMATION_REQUIRED whenever it gets past the signature check and the rate
\* limiter; revokeVault of an individual vault signed by its owner and let through
\* the limiter commits without confirm.
C11_TeamRevocationNeedsConfirm ==
    \A req \in RevokeVaultRequests(OneRound) :
        LET out == handleOperation(req)
            p == req.payload
        IN (Has(vaults, p.vaultId) /\ ~p.confirm) =>
             IF vaults[p.vaultId].type = "team"
             THEN /\ out.code # "OK"
                  /\ out.burned = <<>>
                  /\ out.vaults = vaults
                  /\ LetThrough(out) => out.code = "CONFIRMATION_REQUIRED"
             ELSE LetThrough(out) => out.code = "OK" /\ ~Has(out.vaults, p.vaultId)

\* A team vault with an entry: its owner's revokeVault without confirm is refused
\* with CONFIRMATION_REQUIRED.
C11_Witness ==
    \E req \in RevokeVaultRequests(OneRound) :
        /\ Has(vaults, req.payload.vaultId)
        /\ vaults[req.payload.vaultId].type = "team"
        /\ Len(vaults[req.payload.vaultId].entries) > 0
        /\ ~req.payload.confirm
        /\ handleOperation(req).code = "CONFIRMATION_REQUIRED"
        /\ handleOperation(req).vaults = vaults

\* C12: a revokeVault that commits has burned the manifest token of the vault and
\* then the token of each entry, in the order of the entries, and returns
\* burnedTokens = 1 + the number of entries the vault held.
C12_BurnsManifestAndEntries ==
    \A req \in RevokeVaultRequests(OneRound) :
        LET out == handleOperation(req)
            vault == vaults[req.payload.vaultId]
        IN out.code = "OK" =>
             /\ out.data.burnedTokens = 1 + Len(vault.entries)
             /\ out.burned = <<vault.manifestTokenId>>
                              \o [i \in 1..Len(vault.entries) |-> vault.entries[i].tokenId]

\* C13: from a committed removeMember(m) on a team vault, for as long as the vault
\* exists and m has not accepted a new invite, m is not in authorized, every
\* well-formed getEntry on the vault signed by m fails with UNAUTHORIZED, and
\* every addEntry on the vault by m fails, leaves the vaults unchanged and is
\* refused with UNAUTHORIZED when it is signed by m and let through the limiter.
C13_RemovedMemberIsDenied ==
    \A r \in removals :
        /\ Has(vaults, r.vaultId)
        /\ ~Contains(vaults[r.vaultId].authorized, r.member)
        /\ \A req \in GetEntryRequests :
              (req.payload.vaultId = r.vaultId /\ req.payload.actor = r.member) =>
                  /\ handleOperation(req).code # "OK"
                  /\ ( /\ req.payload.hasIndex \/ req.payload.hasTokenId
                       /\ ByKeyOf(req, r.member, GetEntryPreimage(req.payload)) )
                     => handleOperation(req).code = "UNAUTHORIZED"
        /\ \A req \in AddEntryRequests(OneRound) :
              (req.payload.vaultId = r.vaultId /\ req.payload.actor = r.member) =>
                  /\ handleOperation(req).code # "OK"
                  /\ handleOperation(req).vaults = vaults
                  /\ LetThrough(handleOperation(req)) => handleOperation(req).code = "UNAUTHORIZED"

\* rB has been removed from a vault that holds an entry: rB's signed getEntry and
\* addEntry are both refused with UNAUTHORIZED.
C13_Witness ==
    \E r \in removals :
        /\ Len(vaults[r.vaultId].entries) > 0
        /\ \E req \in GetEntryRequests :
              /\ req.payload.vaultId = r.vaultId
              /\ ByKeyOf(req, r.member, GetEntryPreimage(req.payload))
              /\ handleOperation(req).code = "UNAUTHORIZED"
        /\ \E req \in AddEntryRequests(OneRound) :
              /\ req.payload.vaultId = r.vaultId
              /\ ByKeyOf(req, r.member, AddEntryPreimage(req.payload))
              /\ handleOperation(req).code = "UNAUTHORIZED"

AllRequests ==
    MutatingRequests(OneRound) \cup GetPendingInvitesRequests \cup ListVaultURITokensRequests
    \cup GetEntryRequests \cup GetMyVaultsRequests \cup StateDigestRequests
    \cup GetVaultMetadataRequests \cup UnknownRequests

\* C14: every operation that ends in failure, whatever its code and whatever step
\* failed (the file write of persistState included), leaves the vaults in memory
\* and the state file exactly as they were before the operation.
C14_FailureChangesNothing ==
    \A req \in AllRequests : \A fsWrite \in FsWrites :
        Response(req, fsWrite).code # "OK" =>
            /\ Response(req, fsWrite).vaults = vaults
            /\ Response(req, fsWrite).stateFile = stateFile

\* The same statement for the operations whose file writes succeed: a failure
\* raised by the handler itself, before persistState, changes neither the vaults
\* nor the file, and the file always mirrors the vaults.
HandlerFailureChangesNothing ==
    /\ stateFile = vaults
    /\ \A req \in AllRequests :
          Response(req, "written").code # "OK" =>
              /\ Response(req, "written").vaults = vaults
              /\ Response(req, "written").stateFile = stateFile

\* With the ledger fallback off, a manifest rotation whose burn went through and
\* whose re-mint threw, and a revocation whose second burn threw, leave the
\* vaults as they were.
LedgerFailedMidway ==
    /\ \E req \in UpdateVaultManifestRequests(OneRound) :
          /\ handleOperation(req).code = "XRPL_SUBMISSION_FAILED"
          /\ handleOperation(req).burned # <<>>
    /\ \E req \in RevokeVaultRequests(OneRound) :
          /\ handleOperation(req).code = "XRPL_SUBMISSION_FAILED"
          /\ handleOperation(req).burned # <<>>

\* Two replicas are set up alike: both have a ledger client and signers, or
\* neither has.
SameLedgerSetup(d1, d2) == (d1.ledger = "none") <=> (d2.ledger = "none")

\* C15: two replicas with the same configuration that hold the same state and
\* take the same request have equal state digests after it, whether it succeeds
\* or fails, whatever the ledger answers to each of them.
C15_ReplicasAgree ==
    \A req \in AllRequests : \A d \in Deps :
        SameLedgerSetup(req.deps, d) =>
            digest(handleOperation([req EXCEPT !.deps = d]).vaults) = digest(handleOperation(req).vaults)

\* C16: every vault is stored under its id, which is buildVaultId of its owner and
\* salt, and no request changes the id, the owner or the salt of a vault that
\* exists before it and still exists after it.
C16_IdentityIsFixed ==
    /\ \A v \in DOMAIN vaults :
          /\ vaults[v].id = v
          /\ vaults[v].id = buildVaultId(vaults[v].owner, vaults[v].salt)
    /\ \A req \in AllRequests :
          LET after == handleOperation(req).vaults IN
          \A v \in DOMAIN vaults :
              Has(after, v) =>
                  /\ after[v].id = vaults[v].id
                  /\ after[v].owner = vaults[v].owner
                  /\ after[v].salt = vaults[v].salt

\* A team vault that holds an entry, a member besides its owner and a password
\* backup, and that a committing request is about to change.
C16_Witness ==
    \E v \in DOMAIN vaults :
        /\ Len(vaults[v].entries) > 0
        /\ Len(vaults[v].authorized) > 1
        /\ vaults[v].metadata.passwordBackup # NoBackup
        /\ \E req \in AllRequests :
              LET out == handleOperation(req) IN
              /\ out.code = "OK"
              /\ Has(out.vaults, v)
              /\ out.vaults[v] # vaults[v]

\* C17: in every reachable state the createdAt of an entry is not before the
\* createdAt of the vault that holds it, for createVault and addEntry requests
\* under whatever round keys they resolve to.
C17_EntriesNotOlderThanVault ==
    \A v \in DOMAIN vaults : \A i \in 1..Len(vaults[v].entries) :
        ~CreatedAfter(vaults[v].createdAt, vaults[v].entries[i].createdAt)

\* While the round key only stays or grows from one call to the next, as it
\* does within one round and across the rounds of the runtime, the entries are
\* not older than their vault: an addEntry under the current key or a later one
\* adds none that is.
EntriesNotOlderWhileKeysGrow ==
    C17_EntriesNotOlderThanVault =>
        \A req \in {r \in AddEntryRequests(AnyRound) : Narrow(r)} :
            LET after == handleOperation(req).vaults IN
            (\A v \in DOMAIN vaults : ~CreatedAfter(vaults[v].createdAt, RoundKeyOf(req))) =>
                \A v \in DOMAIN after : \A i \in 1..Len(after[v].entries) :
                    ~CreatedAfter(after[v].createdAt, after[v].entries[i].createdAt)

\* An envelope other than the one the vault may hold, and the owner's
\* addPasswordBackup requests that carry it.
OtherEnvelope(vaultId) == [Envelope(vaultId) EXCEPT !.ciphertext = "b3RoZXI="]

ReplacingRequests ==
    UNION {Variants("addPasswordBackup", p, AddPasswordBackupPreimage(p), AnyRound, {DefaultDeps}) :
             p \in {[vaultId |-> v, actor |-> vaults[v].owner, passwordBackup |-> OtherEnvelope(v)] :
                      v \in DOMAIN vaults}}

\* The metadata a committed addPasswordBackup or removePasswordBackup leaves:
\* the backup set to `backup` (NoBackup: absent) and, unless the rest is kept as
\* it was, lastUpdated set to the round key of the request.
MetadataAfter(metadata, backup, roundKey, keepsRest) ==
    IF keepsRest THEN [metadata EXCEPT !.passwordBackup = backup]
    ELSE [metadata EXCEPT !.passwordBackup = backup, !.lastUpdated = roundKey]

\* getVaultMetadata by the owner returns the stored metadata; a committed
\* addPasswordBackup(e) leaves MetadataAfter with backup e, whatever backup was
\* there; a committed removePasswordBackup leaves MetadataAfter with no backup;
\* no other request changes the metadata of a vault it does not delete.
BackupRoundTrip(keepsRest) ==
    \A v \in DOMAIN vaults :
        /\ \A req \in GetVaultMetadataRequests :
              LET out == handleOperation(req) IN
              (req.payload.vaultId = v /\ out.code = "OK") => out.data.metadata = vaults[v].metadata
        /\ \A req \in AddPasswordBackupRequests(AnyRound) \cup ReplacingRequests :
              LET out == handleOperation(req) IN
              (req.payload.vaultId = v /\ out.code = "OK") =>
                  out.vaults[v].metadata =
                      MetadataAfter(vaults[v].metadata, req.payload.passwordBackup, RoundKeyOf(req), keepsRest)
        /\ \A req \in RemovePasswordBackupRequests(AnyRound) :
              LET out == handleOperation(req) IN
              (req.payload.vaultId = v /\ out.code = "OK") =>
                  out.vaults[v].metadata = MetadataAfter(vaults[v].metadata, NoBackup, RoundKeyOf(req), keepsRest)
        /\ \A req \in AllRequests :
              LET out == handleOperation(req) IN
              (req.type \notin {"addPasswordBackup", "removePasswordBackup"} /\ Has(out.vaults, v)) =>
                  out.vaults[v].metadata = vaults[v].metadata

\* C18 as stated: after a successful addPasswordBackup(e) the owner's
\* getVaultMetadata returns passwordBackup = e until the next addPasswordBackup
\* replaces it or removePasswordBackup removes it, and every other metadata
\* field is as it was.
C18_BackupRoundTripKeepsRest == BackupRoundTrip(TRUE)

\* C18 amended: the same, except that lastUpdated becomes the round key of the
\* addPasswordBackup or removePasswordBackup; vaultId and blobVersion are kept.
C18_BackupRoundTripStampsRound == BackupRoundTrip(FALSE)

\* A vault created under one round key holds a backup added under another, the
\* owner reads it back, and an addPasswordBackup with another envelope is about
\* to replace it.
C18_Witness ==
    \E v \in DOMAIN vaults :
        /\ vaults[v].metadata.passwordBackup = Envelope(v)
        /\ vaults[v].metadata.lastUpdated # vaults[v].createdAt
        /\ \E req \in GetVaultMetadataRequests :
              /\ handleOperation(req).code = "OK"
              /\ handleOperation(req).data.metadata.passwordBackup = Envelope(v)
        /\ \E req \in ReplacingRequests :
              /\ handleOperation(req).code = "OK"
              /\ handleOperation(req).vaults[v].metadata.passwordBackup = OtherEnvelope(v)

\* The requests for the operations on team vaults, well-formed or not.
TeamRequests ==
    CreateTeamVaultRequests(OneRound) \cup {r \in CreateVaultRequests(OneRound) : r.payload.type = "team"}
    \cup InviteRequests(OneRound) \cup AcceptInviteRequests(OneRound) \cup RevokeInviteRequests(OneRound)
    \cup RemoveMemberRequests(OneRound) \cup GetPendingInvitesRequests
    \cup UpdateVaultManifestRequests(OneRound)

\* C19: with team mode off, every createTeamVault, createVault of type "team",
\* inviteToVault, acceptInvite, revokeInvite, removeMember, getPendingInvites
\* and updateVaultManifest fails with TEAM_MODE_DISABLED and changes neither the
\* vaults nor the limiter, and no vault of type "team" exists.
C19_TeamModeOff ==
    /\ \A v \in DOMAIN vaults : vaults[v].type # "team"
    /\ \A req \in TeamRequests :
          LET out == handleOperation(req) IN
          /\ out.code = "TEAM_MODE_DISABLED"
          /\ out.vaults = vaults
          /\ out.limiter = limiter
          /\ out.burned = <<>>

\* An individual vault with an entry exists, and its owner's well-formed, signed
\* createTeamVault, inviteToVault and updateVaultManifest are refused.
C19_Witness ==
    /\ ~cfg.teamMode
    /\ \E v \in DOMAIN vaults : Len(vaults[v].entries) > 0
    /\ \E req \in CreateTeamVaultRequests(OneRound) :
          /\ ByKeyOf(req, req.payload.owner, CreateTeamVaultPreimage(req.payload))
          /\ handleOperation(req).code = "TEAM_MODE_DISABLED"
    /\ \E req \in InviteRequests(OneRound) :
          /\ Has(vaults, req.payload.vaultId)
          /\ ByKeyOf(req, vaults[req.payload.vaultId].owner, InvitePreimage(req.payload))
          /\ handleOperation(req).code = "TEAM_MODE_DISABLED"
    /\ \E req \in UpdateVaultManifestRequests(OneRound) :
          /\ Has(vaults, req.payload.vaultId)
          /\ ByKeyOf(req, vaults[req.payload.vaultId].owner, UpdateVaultManifestPreimage(req.payload))
          /\ handleOperation(req).code = "TEAM_MODE_DISABLED"

\* The requests that create a vault, by either operation.
CreationRequests == CreateVaultRequests(OneRound) \cup CreateTeamVaultRequests(OneRound)

\* C20: a createVault or createTeamVault whose owner and salt give the id of an
\* existing vault fails and leaves every vault as it was; it fails with
\* VAULT_ALREADY_EXISTS whenever it passed the steps that come before the
\* insertion (validation, signature, rate limit, metadata, mint).
C20_DuplicateIsRefused ==
    \A req \in CreationRequests :
        LET out == handleOperation(req)
            vaultId == buildVaultId(req.payload.owner, req.payload.salt)
        IN Has(vaults, vaultId) =>
             /\ out.code # "OK"
             /\ out.vaults = vaults
             /\ ( /\ LetThrough(out)
                  /\ normalizeVaultMetadata(req.payload.metadata, vaultId, RoundKeyOf(req)).code = "OK"
                  /\ mintUriToken(req.deps, PlaceholderUri, "", cfg.devFallback).code = "OK" )
                => out.code = "VAULT_ALREADY_EXISTS"

\* A team vault with an entry exists; a createVault of an individual vault and a
\* createTeamVault with the same owner and salt, both signed by the owner, are
\* refused with VAULT_ALREADY_EXISTS.
C20_Witness ==
    \E v \in DOMAIN vaults :
        /\ vaults[v].type = "team"
        /\ Len(vaults[v].entries) > 0
        /\ \E req \in CreateVaultRequests(OneRound) :
              /\ req.payload.type = "individual"
              /\ buildVaultId(req.payload.owner, req.payload.salt) = v
              /\ handleOperation(req).code = "VAULT_ALREADY_EXISTS"
        /\ \E req \in CreateTeamVaultRequests(OneRound) :
              /\ buildVaultId(req.payload.owner, req.payload.salt) = v
              /\ handleOperation(req).code = "VAULT_ALREADY_EXISTS"

\* The owner's signed addEntry requests whose cid is a CID between two blanks.
PaddedCidRequests ==
    UNION {Variants("addEntry", p, AddEntryPreimage(p), OneRound, {DefaultDeps}) :
             p \in {AddEntryPayload(v, vaults[v].owner, "Y2lwaGVy", PaddedCid, m, <<>>) :
                      v \in DOMAIN vaults, m \in EntryMetadatas}}

\* An addEntry whose cid fails `accepted` is refused, appends no entry and mints
\* no token; it is refused with INVALID_CID when the fields validated before
\* the cid (vaultId, actor, encryptedBlob) are well-formed.
CidIsChecked(accepted(_)) ==
    \A req \in AddEntryRequests(OneRound) \cup PaddedCidRequests :
        LET out == handleOperation(req)
            p == req.payload
        IN ~accepted(p.cid) =>
             /\ out.code # "OK"
             /\ out.vaults = vaults
             /\ out.minted = <<>>
             /\ (validVaultIdString(p.vaultId) /\ validClassicAddress(p.actor) /\ validBase64(p.encryptedBlob))
                    => out.code = "INVALID_CID"

\* C21: an addEntry whose cid does not match the CID grammar fails with
\* INVALID_CID before any Token Adapter call: no entry is appended and no token
\* is minted.
C21_InvalidCidIsRefused == CidIsChecked(MatchesCidGrammar)

\* The same for the cids that do not match the grammar once trimmed, which is
\* what assertValidCid tests.
UntrimmableCidIsRefused == CidIsChecked(isLikelyIpfsCid)

\* The owner's addEntry with a padded cid commits: a token is minted for the
\* padded URI and the entry holds the padded cid.
PaddedCidIsStored ==
    \E req \in PaddedCidRequests :
        LET out == handleOperation(req) IN
        /\ out.code = "OK"
        /\ out.minted # <<>>
        /\ out.minted[1].uri = "ipfs://" \o PaddedCid
        /\ out.data.cid = PaddedCid

\* C22: a getEntry that gives both entryIndex and tokenId, signed by a reader of
\* the vault, is resolved by the index alone: it returns the entry at the index,
\* and fails with ENTRY_NOT_FOUND when the index is out of range, whatever entry
\* the token id names.
C22_IndexWins ==
    \A req \in GetEntryRequests :
        LET out == handleOperation(req)
            p == req.payload
        IN ( /\ p.hasIndex /\ p.hasTokenId
             /\ Has(vaults, p.vaultId)
             /\ MayRead(vaults[p.vaultId], p.actor)
             /\ ByKeyOf(req, p.actor, GetEntryPreimage(p)) )
           => IF p.entryIndex + 1 \in 1..Len(vaults[p.vaultId].entries)
              THEN /\ out.code = "OK"
                   /\ out.data.cid = vaults[p.vaultId].entries[p.entryIndex + 1].cid
                   /\ out.data.metadata = vaults[p.vaultId].entries[p.entryIndex + 1].metadata
              ELSE out.code = "ENTRY_NOT_FOUND"

\* A vault holds an entry; a signed getEntry with an index out of range and the
\* token id of that entry gets ENTRY_NOT_FOUND, and one with index 0 and a token
\* id of no entry gets the entry.
C22_Witness ==
    \E v \in DOMAIN vaults :
        /\ Len(vaults[v].entries) > 0
        /\ \E req \in GetEntryRequests :
              /\ req.payload.vaultId = v
              /\ req.payload.hasIndex /\ req.payload.hasTokenId
              /\ req.payload.entryIndex >= Len(vaults[v].entries)
              /\ \E i \in 1..Len(vaults[v].entries) : vaults[v].entries[i].tokenId = req.payload.tokenId
              /\ ByKeyOf(req, req.payload.actor, GetEntryPreimage(req.payload))
              /\ handleOperation(req).code = "ENTRY_NOT_FOUND"
        /\ \E req \in GetEntryRequests :
              /\ req.payload.vaultId = v
              /\ req.payload.hasIndex /\ req.payload.hasTokenId
              /\ req.payload.entryIndex = 0
              /\ req.payload.tokenId = "no-such-token"
              /\ handleOperation(req).code = "OK"

\* The vaults getMyVaults has to list: those of the owner, created after `since`
\* when it is given.
Listed(owner, since) ==
    {v \in DOMAIN vaults : vaults[v].owner = owner /\ (since = Null \/ CreatedAfter(vaults[v].createdAt, since))}

Rotations ==
    {req \in UpdateVaultManifestRequests(OneRound) :
        ~cfg.mutableUriTokens /\ handleOperation(req).code = "OK"}

\* A successful rotation burns the manifest token the vault had, mints one token
\* for the new URI (the placeholder when the payload has no newUri) and stores
\* the id the mint returned.
RotationBurnsAndMints ==
    \A req \in Rotations :
        LET out == handleOperation(req)
            v == req.payload.vaultId
        IN /\ out.burned = <<vaults[v].manifestTokenId>>
           /\ Len(out.minted) = 1
           /\ out.vaults[v].manifestTokenId = out.minted[1].tokenId
           /\ out.data.mode = "burn_remint"
           /\ out.data.manifestTokenId = out.minted[1].tokenId

\* C24: with the mutable-URI flag off a successful updateVaultManifest burns the
\* current manifest token, mints a new one and leaves in manifestTokenId the
\* newly minted id, which differs from the id the vault had before, for every
\* accepted payload (newUri only, newBlobHex only, both).
C24_RotationGivesNewTokenId ==
    /\ RotationBurnsAndMints
    /\ \A req \in Rotations :
          handleOperation(req).vaults[req.payload.vaultId].manifestTokenId
              # vaults[req.payload.vaultId].manifestTokenId

\* A rotation with newBlobHex only that leaves the vault with the id it had.
RotationKeepsTokenId ==
    \E req \in Rotations :
        /\ req.payload.newUri = Undefined
        /\ req.payload.newBlobHex # Undefined
        /\ handleOperation(req).vaults[req.payload.vaultId].manifestTokenId
              = vaults[req.payload.vaultId].manifestTokenId

\* C25: with the mutable-URI flag on a successful updateVaultManifest makes no
\* Token Adapter call (nothing burned, nothing minted), leaves every field of
\* every vault as it was and returns mode "mutable_stub" with the
\* manifestTokenId the vault already had.
C25_MutableStubChangesNothing ==
    cfg.mutableUriTokens =>
        \A req \in UpdateVaultManifestRequests(OneRound) :
            LET out == handleOperation(req) IN
            out.code = "OK" =>
                /\ out.burned = <<>>
                /\ out.minted = <<>>
                /\ out.vaults = vaults
                /\ out.data = [success |-> TRUE, mode |-> "mutable_stub",
                               manifestTokenId |-> vaults[req.payload.vaultId].manifestTokenId]

\* The flag is on and a team vault with a member, a pending invite or an entry
\* takes a manifest update, by newUri and by newBlobHex, with and without a
\* ledger client.
C25_Witness ==
    /\ cfg.mutableUriTokens
    /\ \E v \in DOMAIN vaults :
          /\ Len(vaults[v].authorized) + Len(vaults[v].pendingInvites) + Len(vaults[v].entries) > 1
          /\ \E req \in UpdateVaultManifestRequests(OneRound) :
                /\ req.payload.vaultId = v /\ req.payload.newUri # Undefined
                /\ req.deps.ledger = "ok"
                /\ handleOperation(req).code = "OK"
          /\ \E req \in UpdateVaultManifestRequests(OneRound) :
                /\ req.payload.vaultId = v /\ req.payload.newUri = Undefined
                /\ handleOperation(req).code = "OK"

\* The adapter modes of the token ids a response commits to the vaults: those of
\* its mints when it succeeds, none when it fails.
CommittedModes(out) ==
    IF out.code = "OK" THEN [i \in 1..Len(out.minted) |-> out.minted[i].mode] ELSE <<>>

\* Two replicas that take `req` in the current state, one with the adapter
\* dependencies of the request and one with `d`, both commit and store token ids
\* obtained in the same adapter mode.
SameModeCommitted(req, d) ==
    LET mine == handleOperation(req)
        theirs == handleOperation([req EXCEPT !.deps = d])
    IN (mine.code = "OK" /\ theirs.code = "OK") => CommittedModes(mine) = CommittedModes(theirs)

\* C26: replicas with the same configuration that process the same request never
\* commit token ids obtained in different adapter modes, also when the ledger
\* submission fails on some of them and the ledger fallback is on.
C26_ReplicasCommitSameMode ==
    \A req \in AllRequests : \A d \in Deps :
        SameLedgerSetup(req.deps, d) => SameModeCommitted(req, d)

\* The same with the ledger fallback off: a replica whose submission fails
\* commits nothing.
SameModeWithoutFallback ==
    ~cfg.devFallback => C26_ReplicasCommitSameMode

\* One replica stores the id the ledger returned and another, whose submission
\* failed, the fallback id.
SubmittedAndFallbackCommitted ==
    \E req \in AllRequests : \E d \in Deps :
        /\ SameLedgerSetup(req.deps, d)
        /\ handleOperation(req).code = "OK"
        /\ handleOperation([req EXCEPT !.deps = d]).code = "OK"
        /\ \E i \in 1..Len(handleOperation(req).minted) :
              /\ handleOperation(req).minted[i].mode = "submitted"
              /\ handleOperation([req EXCEPT !.deps = d]).minted[i].mode = "simulated_fallback"
              /\ handleOperation(req).minted[i].tokenId
                    # handleOperation([req EXCEPT !.deps = d]).minted[i].tokenId

\* The items of the queue that runContract has consumed: those the iterator
\* yielded so far.
Consumed == {i \in 1..(position - 1) : queue[i].request # NotAnObject}

\* The responses written for item i.
ResponsesTo(i) == {k \in 1..Len(outputs) : outputs[k].item = i}

\* A success envelope {ok: true, operation, data} of the request, or a failure
\* envelope {ok: false, error, code, errorId}.
IsEnvelopeOf(payload, req) ==
    \/ /\ DOMAIN payload = {"ok", "operation", "data"}
       /\ payload.ok
       /\ payload.operation = req.type
    \/ /\ DOMAIN payload = {"ok", "error", "code", "errorId"}
       /\ ~payload.ok

\* One response per consumed request, in the order of the requests, each a
\* success or a failure envelope.
OneResponseEach ==
    /\ \A i \in Consumed : Cardinality(ResponsesTo(i)) = 1
    /\ \A k \in 1..Len(outputs) :
          /\ outputs[k].item \in Consumed
          /\ IsEnvelopeOf(outputs[k].payload, queue[outputs[k].item].request)
    /\ \A k, l \in 1..Len(outputs) : k < l => outputs[k].item < outputs[l].item

\* C27: runContract emits exactly one response for every request it consumes, in
\* the order of the requests, a success envelope or a failure envelope, and a
\* request that fails (with a ContractError or with any other error) does not
\* stop the processing of the requests after it.
C27_OneResponsePerRequest ==
    /\ OneResponseEach
    /\ ~halted

\* No respond call of the round has thrown: the loop runs and respond was called
\* once for each consumed request.
Undisturbed == ~halted /\ cursor = Cardinality(Consumed)

\* The same property for the rounds in which no respond call throws.
OneResponseWhenRespondReturns == Undisturbed => OneResponseEach

\* A round that went through with a request that failed and a later one that
\* succeeded, each with its response.
FailureThenSuccessAnswered ==
    /\ Undisturbed
    /\ position > Len(queue)
    /\ \E k, l \in 1..Len(outputs) :
          k < l /\ ~outputs[k].payload.ok /\ outputs[l].payload.ok

\* A round that stopped with inputs left, because respond threw in the catch
\* block.
StoppedEarly ==
    /\ halted
    /\ position <= Len(queue)
    /\ queue[position].request # NotAnObject

\* A request that succeeded and was answered with a failure envelope, because
\* respond threw in the try block.
SuccessAnsweredAsFailure ==
    \E k \in 1..Len(outputs) :
        /\ outputs[k].payload.ok = FALSE
        /\ outputs[k].payload.code = "UNEXPECTED_ERROR"
        /\ queue[outputs[k].item].request.type = "createVault"
        /\ stateFile # [v \in {} |-> 0]

\* C28: every response of a round is written to the output descriptor of the
\* user whose request produced it, whatever the mix of users and inputs,
\* including the rounds in which some inputs are not parsable JSON objects.
C28_ResponseGoesToItsUser ==
    \A k \in 1..Len(outputs) : outputs[k].outFd = queue[outputs[k].item].outFd

\* Every input of the round so far parsed to an object.
AllParsedSoFar == \A i \in 1..(position - 1) : queue[i].request # NotAnObject

\* The same property for the rounds in which every input is an object and no
\* respond call throws: the cursor of respond and the iterator move together.
RoutedWhenAllParse == (AllParsedSoFar /\ Undisturbed) => C28_ResponseGoesToItsUser

\* No respond call threw, and the response to a request of u2 was written to the
\* descriptor of u1, whose input before it was no object.
MisroutedAfterSkippedInput ==
    /\ Undisturbed
    /\ \E k \in 1..Len(outputs) :
          /\ queue[outputs[k].item].publicKey = "u2"
          /\ outputs[k].outFd = OutFd("u1")
          /\ \E i \in 1..(outputs[k].item - 1) :
                queue[i].publicKey = "u1" /\ queue[i].request = NotAnObject

\* The audit records written for item i.
RecordsOf(i) == {k \in 1..Len(audit) : audit[k].item = i}

\* The audit records come in the order in which the operations completed.
AuditInCompletionOrder ==
    \A k, l \in 1..Len(audit) : k < l => audit[k].item <= audit[l].item

\* C29: every processed operation, success or failure, mutation or read
\* (getMyVaults, stateDigest, listVaultURITokens, getPendingInvites and
\* getVaultMetadata included), emits exactly one audit record, and the records
\* come in completion order.
C29_OneAuditRecordPerOperation ==
    /\ \A i \in Consumed : Cardinality(RecordsOf(i)) = 1
    /\ AuditInCompletionOrder

\* The operations whose handler calls auditLog when it succeeds.
Audited ==
    {"createVault", "createTeamVault", "inviteToVault", "acceptInvite", "removeMember", "revokeInvite",
     "updateVaultManifest", "revokeVault", "addEntry", "getEntry", "addPasswordBackup",
     "removePasswordBackup"}

\* What the code does in a round without respond failures: one record for every
\* operation that failed and for every success of a handler that logs, none
\* for a success of getMyVaults or stateDigest, all in completion order.
AuditedOperationsLogOnce ==
    Undisturbed =>
        /\ AuditInCompletionOrder
        /\ \A i \in Consumed :
              LET answers == {outputs[k].payload : k \in ResponsesTo(i)} IN
              \A payload \in answers :
                  Cardinality(RecordsOf(i)) =
                      IF ~payload.ok \/ queue[i].request.type \in Audited THEN 1 ELSE 0

\* A listing and a digest were answered with success and left no audit record,
\* next to a createVault that left one.
ReadsLeaveNoRecord ==
    /\ Undisturbed
    /\ \E i, j, m \in Consumed :
          /\ queue[i].request.type = "getMyVaults" /\ RecordsOf(i) = {}
          /\ queue[j].request.type = "stateDigest" /\ RecordsOf(j) = {}
          /\ queue[m].request.type = "createVault" /\ Cardinality(RecordsOf(m)) = 1
          /\ \A n \in {i, j, m} : \E k \in ResponsesTo(n) : outputs[k].payload.ok

\* C30: after every operation that returns success and changed the vaults map
\* (the direct manifestTokenId update of updateVaultManifest included) the state
\* file holds exactly the vaults map in memory, so that a store loaded from the
\* file has the same digest; an operation that fails does not write the file.
C30_FileMirrorsMemory ==
    \A req \in AllRequests : \A fsWrite \in FsWrites :
        LET res == Response(req, fsWrite) IN
        /\ (res.code = "OK" /\ res.vaults # vaults) =>
              /\ res.stateFile = res.vaults
              /\ digest(loadStateFromFs(res.stateFile).vaults) = digest(res.vaults)
        /\ res.code # "OK" => res.stateFile = stateFile

\* A team vault whose manifest rotation succeeds and changes manifestTokenId, a
\* request that fails in the handler and one that fails in the file write.
C30_Witness ==
    /\ \E req \in UpdateVaultManifestRequests(OneRound) :
          LET res == Response(req, "written") IN
          /\ res.code = "OK"
          /\ res.vaults[req.payload.vaultId].manifestTokenId # vaults[req.payload.vaultId].manifestTokenId
          /\ res.stateFile # stateFile
    /\ \E req \in AddEntryRequests(OneRound) : Response(req, "written").code = "UNAUTHORIZED"
    /\ \E req \in AddEntryRequests(OneRound) :
          Response(req, "written").code = "OK" /\ Response(req, "throws").code = "UNEXPECTED_ERROR"

(***************************************************************************)
(* The WebSocket transport of the SDK (sdk/wsTransport.js).  A submit call  *)
(* chains its operation on `queue`; submitSingle gets a socket and waits    *)
(* for one response.  The socket, the server and the timers are the         *)
(* environment.                                                             *)
(***************************************************************************)
MaxSubmits == 3

\* operation.type of the operations submitted; BadOp is a type that is no
\* non-empty string.
TransportOps == {"stateDigest", "getMyVaults"}
BadOp == ""

\* What the server sends: texts that JSON.parse accepts and one it rejects.
Messages == {"{ok:true}", "{ok:false}"}
Garbage == "not json"

\* The states of the promise a submit call returned.
Pending == [state |-> "pending", value |-> Null, during |-> {}]
Fulfilled(message, inFlight) == [state |-> "fulfilled", value |-> message, during |-> inFlight]
Rejected(code) == [state |-> "rejected", value |-> code, during |-> {}]

\* The chained call before call i: the one whose promise `queue` held when
\* submit chained i (0 for the Promise.resolve() the transport starts with).
Pred(i) ==
    LET earlier == {j \in 1..(i - 1) : calls[j].chained}
    IN IF earlier = {} THEN 0 ELSE CHOOSE j \in earlier : \A k \in earlier : k <= j

\* The calls whose operation is sent and awaiting its response.
InFlight == {i \in 1..Len(calls) : calls[i].phase = "waiting"}

\* A transport that calls submitSingle at once, without the chain.
startsAtOnce(i) == TRUE

\* queue.then(() => submitSingle(operation)): the callback runs when the promise
\* before it is fulfilled.
startsWhenFulfilled(i) == IF Pred(i) = 0 THEN TRUE ELSE calls[Pred(i)].promise.state = "fulfilled"

\* submit: an operation that is no object with a type is refused at once, any
\* other is chained on `queue`.
submit ==
    \E op \in TransportOps \cup {BadOp} :
        /\ Len(calls) < MaxSubmits
        /\ calls' = Append(calls,
                IF op = BadOp
                THEN [op |-> op, chained |-> FALSE, phase |-> "settled", socket |-> 0,
                      promise |-> Rejected("INVALID_INPUT")]
                ELSE [op |-> op, chained |-> TRUE, phase |-> "queued", socket |-> 0, promise |-> Pending])
        /\ UNCHANGED <<ws, wire, contract>>

\* submitSingle: getOrConnectSocket returns the open socket, and
\* waitForOneResponse attaches its listeners and sends; or it makes a new
\* socket and waits for it to open.
submitSingle ==
    \E i \in 1..Len(calls) :
        /\ calls[i].phase = "queued"
        /\ startsWhenFulfilled(i)
        /\ IF ws.state = "open"
           THEN /\ calls' = [calls EXCEPT ![i].phase = "waiting", ![i].socket = ws.id]
                /\ wire' = Append(wire, [call |-> i, op |-> calls[i].op, socket |-> ws.id])
                /\ UNCHANGED ws
           ELSE /\ ws' = [id |-> ws.id + 1, state |-> "connecting"]
                /\ calls' = [calls EXCEPT ![i].phase = "connecting", ![i].socket = ws.id + 1]
                /\ UNCHANGED wire
        /\ UNCHANGED contract

\* A promise made by queue.then(onFulfilled) on a promise that is rejected: it is
\* rejected with the same reason and its callback never runs.
chainRejects ==
    \E i \in 1..Len(calls) :
        /\ calls[i].phase = "queued"
        /\ ~startsWhenFulfilled(i)
        /\ calls[Pred(i)].promise.state = "rejected"
        /\ calls' = [calls EXCEPT ![i].phase = "settled", ![i].promise = Rejected(calls[Pred(i)].promise.value)]
        /\ UNCHANGED <<ws, wire, contract>>

\* waitForOpen onOpen, then waitForOneResponse: listeners attached, operation
\* sent.
onOpen ==
    /\ ws.state = "connecting"
    /\ ws' = [ws EXCEPT !.state = "open"]
    /\ calls' = [i \in 1..Len(calls) |->
            IF calls[i].phase = "connecting" /\ calls[i].socket = ws.id
            THEN [calls[i] EXCEPT !.phase = "waiting"] ELSE calls[i]]
    /\ wire' = wire \o [k \in 1..Cardinality({i \in 1..Len(calls) :
                              calls[i].phase = "connecting" /\ calls[i].socket = ws.id}) |->
                         LET i == CHOOSE j \in 1..Len(calls) :
                                      calls[j].phase = "connecting" /\ calls[j].socket = ws.id
                         IN [call |-> i, op |-> calls[i].op, socket |-> ws.id]]
    /\ UNCHANGED contract

\* waitForOpen onError and its timeout.
openFails ==
    \E i \in 1..Len(calls), code \in {"WS_CONNECT_ERROR", "WS_TIMEOUT"} :
        /\ calls[i].phase = "connecting"
        /\ calls' = [calls EXCEPT ![i].phase = "settled", ![i].promise = Rejected(code)]
        /\ ws' = IF code = "WS_CONNECT_ERROR" /\ calls[i].socket = ws.id
                 THEN [ws EXCEPT !.state = "closed"] ELSE ws
        /\ UNCHANGED <<wire, contract>>

\* waitForOneResponse onMessage: every listener attached to the socket takes the
\* message; a text that does not parse rejects with INVALID_RESPONSE.
onMessage ==
    \E message \in Messages \cup {Garbage} :
        /\ ws.state = "open"
        /\ calls' = [i \in 1..Len(calls) |->
                IF calls[i].phase = "waiting" /\ calls[i].socket = ws.id
                THEN [calls[i] EXCEPT !.phase = "settled",
                                      !.promise = IF message = Garbage THEN Rejected("INVALID_RESPONSE")
                                                  ELSE Fulfilled(message, InFlight)]
                ELSE calls[i]]
        /\ UNCHANGED <<ws, wire, contract>>

\* waitForOneResponse onError; the socket stays open or closes.
onError ==
    \E after \in {"open", "closed"} :
        /\ ws.state = "open"
        /\ calls' = [i \in 1..Len(calls) |->
                IF calls[i].phase = "waiting" /\ calls[i].socket = ws.id
                THEN [calls[i] EXCEPT !.phase = "settled", !.promise = Rejected("WS_ERROR")]
                ELSE calls[i]]
        /\ ws' = [ws EXCEPT !.state = after]
        /\ UNCHANGED <<wire, contract>>

\* waitForOneResponse timeout.
responseTimesOut ==
    \E i \in 1..Len(calls) :
        /\ calls[i].phase = "waiting"
        /\ calls' = [calls EXCEPT ![i].phase = "settled", ![i].promise = Rejected("WS_TIMEOUT")]
        /\ UNCHANGED <<ws, wire, contract>>

\* The socket leaves the OPEN state (the peer closed it); no listener of the
\* transport hears of it.
socketCloses ==
    /\ ws.state = "open"
    /\ ws' = [ws EXCEPT !.state = "closed"]
    /\ UNCHANGED <<calls, wire, contract>>

NextTransport ==
    \/ submit
    \/ submitSingle
    \/ chainRejects
    \/ onOpen
    \/ openFails
    \/ onMessage
    \/ onError
    \/ responseTimesOut
    \/ socketCloses

SpecTransport == InitTeam /\ [][NextTransport]_vars

\* C31: whatever the number of concurrent submit calls, at most one operation
\* is sent and awaiting its response at any time, the operations are sent in the
\* order in which submit was called, and each submit resolves with the message
\* received while its own operation was the one in flight.
C31_RequestsAreSerialized ==
    /\ Cardinality(InFlight) <= 1
    /\ \A k, l \in 1..Len(wire) : k < l => wire[k].call < wire[l].call
    /\ \A i \in 1..Len(calls) :
          calls[i].promise.state = "fulfilled" => calls[i].promise.during = {i}

\* Three submit calls were made before the first response came; the first two
\* were sent one after the other and resolved, each with the message that came
\* while it was in flight, and the third is in flight.
C31_Witness ==
    /\ Len(calls) = 3
    /\ Len(wire) = 3
    /\ calls[1].promise.state = "fulfilled"
    /\ calls[2].promise.state = "fulfilled"
    /\ calls[1].promise.value # calls[2].promise.value
    /\ InFlight = {3}

\* The chained calls that were rejected by their own socket: open or response
\* timeout, connection or socket error, unparsable response.
RejectedOnSocket ==
    {i \in 1..Len(calls) : calls[i].chained /\ calls[i].promise.state = "rejected" /\ calls[i].socket # 0}

\* C40: a submit that rejects (open or response timeout, socket error,
\* unparsable response) does not block later work: every operation submitted
\* afterwards is still given a socket and sent, and resolves or rejects
\* according to its own response.
C40_RejectionDoesNotBlock ==
    \A i \in RejectedOnSocket : \A j \in 1..Len(calls) :
        (i < j /\ calls[j].chained /\ calls[j].phase = "settled") => calls[j].socket # 0

\* What the chain does after a rejection: every operation chained after it is
\* rejected with the reason of that rejection and is never sent.
LaterCallsInheritRejection ==
    \A i \in RejectedOnSocket : \A j \in 1..Len(calls) :
        (i < j /\ calls[j].chained) =>
            /\ calls[j].socket = 0
            /\ \A k \in 1..Len(wire) : wire[k].call # j
            /\ calls[j].phase = "settled" => calls[j].promise = calls[Pred(j)].promise

\* A submit refused with INVALID_INPUT leaves the chain alone: the operation
\* submitted after it was sent and resolved.
RefusedSubmitDoesNotBlock ==
    \E i, j \in 1..Len(calls) :
        /\ i < j
        /\ calls[i].promise = Rejected("INVALID_INPUT")
        /\ calls[j].promise.state = "fulfilled"

\* The response to the first operation timed out, and the two operations
\* submitted after it were rejected with WS_TIMEOUT without being sent, on a
\* socket that is still open.
BlockedAfterTimeout ==
    /\ Len(calls) = 3
    /\ ws.state = "open"
    /\ Len(wire) = 1
    /\ \A i \in 1..3 : calls[i].promise = Rejected("WS_TIMEOUT")

\* Address a is authorized in vault v after `req` for one of the reasons the
\* protocol knows: it was authorized before, the request created the vault with
\* a in initialAuthorized, or the request is an acceptInvite on v signed by the
\* key of a, for whom an invite is pending.
AuthorizedForAReason(req, v, a) ==
    \/ Has(vaults, v) /\ Contains(vaults[v].authorized, a)
    \/ /\ req.type \in {"createVault", "createTeamVault"}
       /\ ~Has(vaults, v)
       /\ Contains(req.payload.initialAuthorized, a)
    \/ /\ req.type = "acceptInvite"
       /\ req.payload.vaultId = v
       /\ ByKeyOf(req, a, AcceptInvitePreimage(req.payload))
       /\ Has(vaults, v)
       /\ Contains(InviteAddresses(vaults[v].pendingInvites), a)

\* The invite `inv` is pending in vault v after `req` because it was pending
\* before or because the request is an inviteToVault for that address signed by
\* the owner of the vault.
PendingForAReason(req, v, inv) ==
    \/ Has(vaults, v) /\ Contains(vaults[v].pendingInvites, inv)
    \/ /\ req.type = "inviteToVault"
       /\ req.payload.vaultId = v
       /\ Has(vaults, v)
       /\ ByKeyOf(req, vaults[v].owner, InvitePreimage(req.payload))
       /\ inv.address = req.payload.invitee
       /\ inv.invitedBy = vaults[v].owner

\* C32: an address other than the owner comes into the authorized list of a
\* vault only by initialAuthorized at creation or by its own signed acceptInvite
\* of an invite that the owner issued for it and that is still pending (a
\* revoked invite is pending no more); an acceptInvite by an address with no
\* pending invite fails, with INVITE_NOT_FOUND when the limiter lets it through,
\* and changes no vault.
C32_MembersWereListedOrInvited ==
    /\ \A req \in AllRequests :
          LET out == handleOperation(req) IN
          /\ \A v \in DOMAIN out.vaults :
                /\ \A i \in 1..Len(out.vaults[v].authorized) :
                      out.vaults[v].authorized[i] # out.vaults[v].owner
                          => AuthorizedForAReason(req, v, out.vaults[v].authorized[i])
                /\ \A i \in 1..Len(out.vaults[v].pendingInvites) :
                      PendingForAReason(req, v, out.vaults[v].pendingInvites[i])
          /\ (req.type = "revokeInvite" /\ out.code = "OK") =>
                ~Contains(InviteAddresses(out.vaults[req.payload.vaultId].pendingInvites),
                          req.payload.pendingAddress)
    /\ \A req \in AcceptInviteRequests(OneRound) :
          LET out == handleOperation(req)
              v == req.payload.vaultId
          IN ( /\ Has(vaults, v)
               /\ vaults[v].type = "team"
               /\ req.payload.signerPublicKey \in Keys
               /\ ~Contains(InviteAddresses(vaults[v].pendingInvites),
                             deriveAddress(req.payload.signerPublicKey)) )
             => /\ out.code # "OK"
                /\ out.vaults = vaults
                /\ LetThrough(out) => out.code = "INVITE_NOT_FOUND"

\* A team vault of rA with an invite pending for rB: rB's signed acceptInvite is
\* committed and makes rB a member, and the acceptInvite signed by rA, who has
\* no invite, is refused with INVITE_NOT_FOUND.
C32_Witness ==
    \E v \in DOMAIN vaults :
        /\ vaults[v].type = "team"
        /\ ~Contains(vaults[v].authorized, "rB")
        /\ \E req \in AcceptInviteRequests(OneRound) :
              /\ req.payload.vaultId = v
              /\ ByKeyOf(req, "rB", AcceptInvitePreimage(req.payload))
              /\ handleOperation(req).code = "OK"
              /\ Contains(handleOperation(req).vaults[v].authorized, "rB")
        /\ \E req \in AcceptInviteRequests(OneRound) :
              /\ req.payload.vaultId = v
              /\ ByKeyOf(req, "rA", AcceptInvitePreimage(req.payload))
              /\ handleOperation(req).code = "INVITE_NOT_FOUND"

(***************************************************************************)
(* Order of the write-access check and the mint in addEntry                *)
(***************************************************************************)
\* An addEntry that names an existing vault to which its actor has no write
\* access, signed with the actor's own key.
UnauthorizedAddEntries ==
    {req \in AddEntryRequests(OneRound) :
        /\ Has(vaults, req.payload.vaultId)
        /\ assertWriteAccess(vaults[req.payload.vaultId], req.payload.actor) # "OK"
        /\ ByKeyOf(req, req.payload.actor, AddEntryPreimage(req.payload))}

\* C33: an addEntry by an actor who has no write access to the vault fails with
\* UNAUTHORIZED when the limiter lets it through, and no token has been minted
\* for it.
C33_UnauthorizedAddEntryMintsNothing ==
    \A req \in UnauthorizedAddEntries :
        LET out == handleOperation(req) IN
        LetThrough(out) => /\ out.code = "UNAUTHORIZED"
                           /\ out.minted = <<>>

\* What does hold for such an addEntry: it is refused with UNAUTHORIZED and
\* leaves every vault as it was.
UnauthorizedAddEntryIsRefused ==
    \A req \in UnauthorizedAddEntries :
        LET out == handleOperation(req) IN
        /\ out.code # "OK"
        /\ out.vaults = vaults
        /\ LetThrough(out) => out.code = "UNAUTHORIZED"

\* rB, who has no write access to a vault of rA, is refused with UNAUTHORIZED
\* after the token of the entry was minted.
MintedThenRefused ==
    \E req \in UnauthorizedAddEntries :
        /\ req.payload.actor = "rB"
        /\ handleOperation(req).code = "UNAUTHORIZED"
        /\ handleOperation(req).minted # <<>>

(***************************************************************************)
(* The mint and the insertion it precedes                                  *)
(***************************************************************************)
\* createVault, createTeamVault and addEntry requests under every adapter input
\* of a handler that calls the ledger once.
MintingRequests ==
    {[req EXCEPT !.deps = d] :
        req \in CreateVaultRequests(OneRound) \cup CreateTeamVaultRequests(OneRound)
                    \cup AddEntryRequests(OneRound),
        d \in SingleCallDeps}

\* The vaults that `vs` has and the store has not.
InsertedVaults(vs) == DOMAIN vs \ DOMAIN vaults

\* The vaults of the store that have more entries in `vs`.
VaultsWithInsertedEntry(vs) ==
    {v \in DOMAIN vs \cap DOMAIN vaults : Len(vs[v].entries) > Len(vaults[v].entries)}

\* C34: in createVault, createTeamVault and addEntry, a mint that fails with
\* XRPL_SUBMISSION_FAILED (the ledger submission failed and the dev fallback is
\* off) inserts no vault and no entry, and every vault or entry that is
\* inserted stores the token id that the mint of its own request returned.
C34_MintPrecedesInsertion ==
    \A req \in MintingRequests :
        LET out == handleOperation(req) IN
        /\ (req.deps.ledger = "fail" /\ ~cfg.devFallback) =>
              /\ out.code # "OK"
              /\ out.vaults = vaults
        /\ out.code = "XRPL_SUBMISSION_FAILED" => out.vaults = vaults /\ out.minted = <<>>
        /\ \A v \in InsertedVaults(out.vaults) :
              /\ Len(out.minted) = 1
              /\ out.vaults[v].manifestTokenId = out.minted[1].tokenId
        /\ \A v \in VaultsWithInsertedEntry(out.vaults) :
              /\ Len(out.minted) = 1
              /\ Len(out.vaults[v].entries) = Len(vaults[v].entries) + 1
              /\ out.vaults[v].entries[Len(out.vaults[v].entries)].tokenId = out.minted[1].tokenId

\* With the dev fallback off and a vault in the store: an addEntry and a
\* createTeamVault whose submission fails are refused with
\* XRPL_SUBMISSION_FAILED, and an addEntry whose submission succeeds stores the
\* token id the ledger returned.
C34_Witness ==
    /\ ~cfg.devFallback
    /\ \E req \in MintingRequests :
          /\ req.type = "addEntry"
          /\ req.deps.ledger = "fail"
          /\ handleOperation(req).code = "XRPL_SUBMISSION_FAILED"
    /\ \E req \in MintingRequests :
          /\ req.type = "createTeamVault"
          /\ req.deps.ledger = "fail"
          /\ handleOperation(req).code = "XRPL_SUBMISSION_FAILED"
    /\ \E req \in MintingRequests :
          /\ req.type = "addEntry"
          /\ req.deps.ledger = "ok"
          /\ req.deps.tokenId = "L1"
          /\ handleOperation(req).code = "OK"
          /\ \E v \in VaultsWithInsertedEntry(handleOperation(req).vaults) :
                handleOperation(req).vaults[v].entries[Len(handleOperation(req).vaults[v].entries)].tokenId = "L1"

(***************************************************************************)
(* The rate limiter and the requests that fail before it                   *)
(***************************************************************************)
\* The codes that only the validators of a payload and verifySignedPayload
\* raise.
ValidationCodes ==
    {"INVALID_ADDRESS", "INVALID_SALT", "INVALID_CID", "UNSUPPORTED_VAULT_TYPE", "INVALID_SIGNATURE"}

\* An updateVaultManifest whose payload passes its validators and whose vault
\* has no manifest token id: burnUriToken refuses it with INVALID_INPUT, which
\* is then no failure of the payload validation.
BurnRefused(req) ==
    /\ req.type = "updateVaultManifest"
    /\ validVaultIdString(req.payload.vaultId)
    /\ ~(req.payload.newUri = Undefined /\ req.payload.newBlobHex = Undefined)
    /\ req.payload.newUri # ShortUri
    /\ req.payload.newBlobHex \in HexBlobs \cup {Undefined}
    /\ Has(vaults, req.payload.vaultId)
    /\ vaults[req.payload.vaultId].manifestTokenId = Null

\* The request failed in the validation of its payload or in the verification
\* of its signature.
FailedValidation(req, out) ==
    \/ out.code \in ValidationCodes
    \/ out.code = "INVALID_INPUT" /\ ~BurnRefused(req)

\* The signature of the request verifies under the key it declares.
SignatureVerifies(req) ==
    /\ req.payload.signerPublicKey \in Keys
    /\ req.payload.signature.by = req.payload.signerPublicKey
    /\ req.payload.signature.over # Tampered

ChargedFailures ==
    {<<"createVault", "VAULT_ALREADY_EXISTS">>, <<"createTeamVault", "VAULT_ALREADY_EXISTS">>,
     <<"acceptInvite", "VAULT_NOT_FOUND">>, <<"acceptInvite", "INVITE_NOT_FOUND">>,
     <<"inviteToVault", "INVITE_ALREADY_EXISTS">>, <<"removeMember", "MEMBER_NOT_FOUND">>,
     <<"revokeVault", "CONFIRMATION_REQUIRED">>, <<"addEntry", "UNAUTHORIZED">>}
    \cup {<<t, "XRPL_SUBMISSION_FAILED">> :
             t \in {"createVault", "createTeamVault", "addEntry", "updateVaultManifest", "revokeVault"}}

\* The mutating requests, those that mint under every adapter input.
ChargeableRequests == MutatingRequests(OneRound) \cup MintingRequests

\* The count of `owner` that a request with round key `roundKey` finds.
CountInRound(owner, roundKey) == IF limiter.roundKey = roundKey THEN CountOf(limiter, owner) ELSE 0

\* C36: a mutating operation that passes the rate-limit check and then fails
\* (VAULT_ALREADY_EXISTS, VAULT_NOT_FOUND or INVITE_NOT_FOUND in acceptInvite,
\* INVITE_ALREADY_EXISTS, MEMBER_NOT_FOUND, CONFIRMATION_REQUIRED, UNAUTHORIZED
\* in addEntry, XRPL_SUBMISSION_FAILED) changes no vault and still uses one slot
\* of the actor's quota in the round, and an actor whose five slots are used
\* gets RATE_LIMIT_EXCEEDED whatever the number of its operations that committed.
C36_FailedOperationUsesQuota ==
    \A req \in ChargeableRequests :
        LET out == handleOperation(req) IN
        /\ <<req.type, out.code>> \in ChargedFailures =>
              /\ LetThrough(out)
              /\ out.vaults = vaults
              /\ out.limiter.roundKey = RoundKeyOf(req)
              /\ CountOf(out.limiter, out.limited) = CountInRound(out.limited, RoundKeyOf(req)) + 1
              /\ CountOf(out.limiter, out.limited) <= OPS_PER_ROUND_LIMIT
        /\ (Reached(out) /\ CountInRound(out.limited, RoundKeyOf(req)) = OPS_PER_ROUND_LIMIT) =>
              out.code = "RATE_LIMIT_EXCEEDED"

\* rA has used its five slots of the round and is refused with
\* RATE_LIMIT_EXCEEDED, and not one operation has committed: no vault exists
\* and none was revoked, so every createVault failed and no other operation
\* had a vault to act on.
C36_Witness ==
    /\ vaults = <<>>
    /\ revocations = {}
    /\ CountOf(limiter, "rA") = OPS_PER_ROUND_LIMIT
    /\ \E req \in CreateVaultRequests(OneRound) :
          /\ handleOperation(req).code = "RATE_LIMIT_EXCEEDED"
          /\ handleOperation(req).limited = "rA"

(***************************************************************************)
(* Burned tokens and the vaults that reference them                        *)
(***************************************************************************)
\* The token ids the vaults of `vs` reference: manifest tokens and entry tokens.
ReferencedTokens(vs) ==
    {vs[v].manifestTokenId : v \in DOMAIN vs}
    \cup UNION {{vs[v].entries[i].tokenId : i \in 1..Len(vs[v].entries)} : v \in DOMAIN vs}

\* The requests whose handlers call burnUriToken.
BurningRequests == UpdateVaultManifestRequests(OneRound) \cup RevokeVaultRequests(OneRound)

\* C37: whatever request is handled next, none of the token ids it burned is
\* referenced by a vault that exists afterwards, as manifestTokenId or as the
\* tokenId of an entry (updateVaultManifest whose mint fails after its burn
\* included).
C37_NoReferencedTokenBurned ==
    \A req \in BurningRequests :
        LET out == handleOperation(req) IN
        \A i \in 1..Len(out.burned) : out.burned[i] \notin ReferencedTokens(out.vaults)

\* A committed revokeVault deletes the vault whose tokens it burned.
RevokedVaultIsDeleted ==
    \A req \in RevokeVaultRequests(OneRound) :
        LET out == handleOperation(req) IN
        out.code = "OK" => /\ ~Has(out.vaults, req.payload.vaultId)
                           /\ out.burned = listVaultURITokens(vaults, req.payload.vaultId,
                                                               vaults[req.payload.vaultId].owner).tokens

\* A team vault whose manifest token L1 was minted on the ledger: an
\* updateVaultManifest whose burn is submitted and whose mint then fails is
\* refused with XRPL_SUBMISSION_FAILED and leaves the vault with the burned L1.
BurnedManifestStillReferenced ==
    \E req \in UpdateVaultManifestRequests(OneRound) :
        /\ Has(vaults, req.payload.vaultId)
        /\ vaults[req.payload.vaultId].manifestTokenId = "L1"
        /\ req.deps.ledger = "ok"
        /\ handleOperation(req).code = "XRPL_SUBMISSION_FAILED"
        /\ handleOperation(req).burned = <<"L1">>
        /\ handleOperation(req).vaults[req.payload.vaultId].manifestTokenId = "L1"

\* A vault with an entry: a revokeVault whose first burn is submitted and whose
\* second fails is refused, and the vault keeps the manifest token it burned.
PartlyBurnedVaultRemains ==
    \E req \in RevokeVaultRequests(OneRound) :
        /\ handleOperation(req).code = "XRPL_SUBMISSION_FAILED"
        /\ Len(handleOperation(req).burned) = 1
        /\ handleOperation(req).burned[1] = handleOperation(req).vaults[req.payload.vaultId].manifestTokenId

(***************************************************************************)
(* The read operations                                                     *)
(***************************************************************************)
\* The requests of the six read operations, with honest, forged and missing
\* credentials and with malformed payloads.
ReadRequests ==
    GetEntryRequests \cup GetMyVaultsRequests \cup GetPendingInvitesRequests
    \cup ListVaultURITokensRequests \cup GetVaultMetadataRequests \cup StateDigestRequests

\* C38: getEntry, getMyVaults, getPendingInvites, listVaultURITokens,
\* getVaultMetadata and stateDigest, successful or failed, leave the vaults map,
\* the state digest, the state file and the rate limiter as they were, and are
\* never refused with RATE_LIMIT_EXCEEDED.
C38_ReadsChangeNothing ==
    \A req \in ReadRequests :
        LET out == handleOperation(req) IN
        /\ out.vaults = vaults
        /\ digest(out.vaults) = digest(vaults)
        /\ \A fsWrite \in FsWrites : Response(req, fsWrite).stateFile = stateFile
        /\ persistState(req, out) = stateFile
        /\ out.limiter = limiter
        /\ ~Reached(out)
        /\ out.code # "RATE_LIMIT_EXCEEDED"
        /\ out.burned = <<>> /\ out.minted = <<>>

\* rA has used its five slots of the round, so that its next mutating request
\* is refused with RATE_LIMIT_EXCEEDED; its vault has an entry; getMyVaults,
\* getEntry, listVaultURITokens and stateDigest still succeed, and the getEntry
\* of rB is refused with UNAUTHORIZED.
C38_Witness ==
    /\ CountOf(limiter, "rA") = OPS_PER_ROUND_LIMIT
    /\ \E req \in AddEntryRequests(OneRound) : handleOperation(req).code = "RATE_LIMIT_EXCEEDED"
    /\ \E req \in GetMyVaultsRequests :
          /\ req.payload.owner = "rA"
          /\ handleOperation(req).code = "OK"
          /\ Len(handleOperation(req).data) > 0
    /\ \E req \in GetEntryRequests : handleOperation(req).code = "OK"
    /\ \E req \in GetEntryRequests : handleOperation(req).code = "UNAUTHORIZED"
    /\ \E req \in ListVaultURITokensRequests : handleOperation(req).code = "OK"
    /\ \E req \in StateDigestRequests : handleOperation(req).code = "OK"

(***************************************************************************)
(* The vault an operation names and the other vaults of the store          *)
(***************************************************************************)
\* The vault ids a request names: payload.vaultId, or the id that createVault
\* and createTeamVault compute from owner and salt; none for the others.
NamedVaults(req) ==
    IF req.type \in {"createVault", "createTeamVault"}
    THEN {buildVaultId(req.payload.owner, req.payload.salt)}
    ELSE IF req.type \in {"getMyVaults", "stateDigest"} \/ "vaultId" \notin DOMAIN req.payload
    THEN {}
    ELSE {req.payload.vaultId}

\* Every request of the model, and the creations under either salt.
FramedRequests == AllRequests \cup ListingCreations

\* C39: every operation changes at most the vault it names: every other vault
\* of the store is still there afterwards with the same authorized list,
\* pending invites, entries, metadata and manifestTokenId, no vault other than
\* the named one appears, and createVault and createTeamVault change no vault
\* that exists.
C39_OtherVaultsUnchanged ==
    \A req \in FramedRequests :
        LET out == handleOperation(req) IN
        /\ \A v \in DOMAIN vaults \ NamedVaults(req) :
              /\ Has(out.vaults, v)
              /\ out.vaults[v] = vaults[v]
        /\ DOMAIN out.vaults \ DOMAIN vaults \subseteq NamedVaults(req)
        /\ req.type \in {"createVault", "createTeamVault"} =>
              \A v \in DOMAIN vaults : Has(out.vaults, v) /\ out.vaults[v] = vaults[v]

\* Two vaults of rA in the store: an addEntry and a revokeVault that name the
\* first are committed, the one appends an entry to it and the other deletes
\* it, and the second vault is as it was.
C39_Witness ==
    /\ Cardinality(DOMAIN vaults) = 2
    /\ Has(vaults, TheVaultId)
    /\ \E req \in AddEntryRequests(OneRound) :
          /\ req.payload.vaultId = TheVaultId
          /\ handleOperation(req).code = "OK"
          /\ Len(handleOperation(req).vaults[TheVaultId].entries) = Len(vaults[TheVaultId].entries) + 1
          /\ \A v \in DOMAIN vaults \ {TheVaultId} : handleOperation(req).vaults[v] = vaults[v]
    /\ \E req \in RevokeVaultRequests(OneRound) :
          /\ req.payload.vaultId = TheVaultId
          /\ handleOperation(req).code = "OK"
          /\ DOMAIN handleOperation(req).vaults = DOMAIN vaults \ {TheVaultId}

\* One vault in the store and a createVault under the other salt that is
\* committed: the store has two vaults afterwards.
SecondVaultCreated ==
    /\ Cardinality(DOMAIN vaults) = 1
    /\ \E req \in ListingCreations :
          /\ handleOperation(req).code = "OK"
          /\ Cardinality(DOMAIN handleOperation(req).vaults) = 2

====
